---- MODULE Spec2Model ----
(***************************************************************************)
(* Verification model of the light node core: the pruner worker            *)
(* (node/src/pruner.rs), the head election of the header exchange client   *)
(* (node/src/exchange/client.rs) and the syncer worker                     *)
(* (node/src/syncer.rs), over a shared header store.                       *)
(*                                                                         *)
(* Headers of the canonical chain are identified by their height; the time *)
(* of the header at height h is HeaderTime(h).  Time is counted in hours.  *)
(* An Option<T> is the empty set (None) or a singleton (Some).             *)
(***************************************************************************)
EXTENDS Integers, Sequences, FiniteSets, Bags, TLC

VARIABLES
    \* ---- shared
    store,                  \* heights of the headers held by the Store
    clock,                  \* Time::now(), in hours
    \* ---- pruner worker (pruner.rs)
    ppc,                    \* position of the pruner worker
    pcancelled,             \* the pruner's cancellation token is cancelled
    pruning_window_end,     \* local of try_prune_tail
    tail_height,            \* Some(height) of the tail read by get_current_tail
    cids,                   \* the tail header's CIDs still to be removed
    blockstore,             \* CIDs held by the blockstore
    pevents,                \* the events the pruner has published
    passRemoved,            \* history: heights removed by the running pass
    passInserted,           \* history: a header was inserted since the pass began
    pruned,                 \* history: the heights the pruner has removed
    \* ---- header exchange client (exchange/client.rs)
    trusted_peers,          \* PeerTracker: the connected trusted peers
    reqs,                   \* ExchangeClientHandler::reqs, request id -> State
    next_req_id,            \* the next RequestId the RequestSender hands out
    sent,                   \* RequestSender: the requests sent, id -> peer and request
    decode_tasks,           \* spawned by on_response_received, not yet run
    chan,                   \* oneshot channels: id -> None / Some(result)
    head_rxs,               \* receivers joined by the spawned head election
    etime,                  \* Instant::now() of the exchange client, seconds
    \* ---- syncer worker (syncer.rs)
    spc,                    \* position of the syncer worker
    scancelled,             \* the syncer's cancellation token is cancelled
    subjective_head_height, \* Worker::subjective_head_height
    ongoing_batch,          \* Worker::ongoing_batch: Some([lo, hi])
    estimated_syncing_window_end,   \* Worker::estimated_syncing_window_end
    headers_rx,             \* the results queued in the headers channel
    fetch_tasks,            \* bag of the running tasks spawned by fetch_next_batch
    try_init_task,          \* the task spawned by spawn_try_init
    header_sub,             \* the head the header-sub watch channel holds unseen
    header_sub_changed,     \* header_sub_watcher has an unseen value
    other_peers,            \* PeerTracker: number of connected peers that are not trusted
    peer_tracker_changed,   \* peer_tracker_info_watcher has an unseen value
    emitted,                \* the NodeEvents the step just taken sent to event_pub
    cmd_rx,                 \* the SyncerCmds queued in the command channel
    cmd_rx_closed,          \* the Worker, and with it cmd_rx, has been dropped
    info_calls,             \* the calls of Syncer::info, each with its result
    \* ---- IndexedDbStore (store/indexed_db_store.rs)
    idb,                    \* the "headers" object store, entries in key order
    idb_last                \* the last call of append_single_unchecked and its result

svars == <<spc, scancelled, subjective_head_height, ongoing_batch,
           estimated_syncing_window_end, headers_rx, fetch_tasks, try_init_task,
           header_sub, header_sub_changed, other_peers, peer_tracker_changed,
           emitted, cmd_rx, cmd_rx_closed, info_calls>>

\* The command channel and the callers of Syncer::info.
ivars == <<cmd_rx, cmd_rx_closed, info_calls>>

evars == <<trusted_peers, reqs, next_req_id, sent, decode_tasks, chan, head_rxs,
           etime>>

pvars == <<ppc, pcancelled, pruning_window_end, tail_height, cids, blockstore,
           pevents, passRemoved, passInserted, pruned>>

dvars == <<idb, idb_last>>

vars == <<store, clock, pvars, evars, svars, dvars>>

----------------------------------------------------------------------------
\* Bounds of the model.

MaxHeight == 4          \* heights are 1..MaxHeight
CidsPerHeader == 1      \* CIDs in the sampling metadata of a sampled header
NumPeers == 4           \* trusted peers a head request may fan out to
TickSecs == 5           \* granularity of the exchange client's clock
MaxConnected == 1       \* peers connected at a time while the syncer runs
MaxTasks == 2           \* fetch tasks alive at a time
StartHeight == 2        \* the height a request by height or by hash asks for
MaxAmount == 2          \* the largest amount a request asks for
MaxTrusted == 11        \* trusted peers connected when the fan-out is capped
BatchLimit == 2         \* MAX_HEADERS_IN_BATCH, scaled to the modelled heights
MaxInfos == 2           \* calls of Syncer::info in a behaviour

Heights == 1..MaxHeight

----------------------------------------------------------------------------
\* Program constants (hours).

SYNCING_WINDOW == 30 * 24
PRUNING_WINDOW == SYNCING_WINDOW + 1

MaxClock == PRUNING_WINDOW + MaxHeight + 1

----------------------------------------------------------------------------
\* Collaborators: headers, store, blockstore.

Min(S) == CHOOSE x \in S : \A y \in S : x <= y
Max(S) == CHOOSE x \in S : \A y \in S : x >= y

\* ExtendedHeader::time of the header at height h: non-decreasing in height.
HeaderTime(h) == h

\* Time::checked_sub(..).unwrap_or_else(|| Time::unix_epoch())
CheckedSubOrEpoch(t, d) == IF t >= d THEN t - d ELSE 0

\* Store::get_stored_header_ranges: the maximal runs of stored heights.
StoredHeaderRanges(s) ==
    {r \in [lo : s, hi : s] :
        /\ r.lo <= r.hi
        /\ \A h \in r.lo..r.hi : h \in s
        /\ (r.lo - 1) \notin s
        /\ (r.hi + 1) \notin s}

\* BlockRanges::tail(): the lowest stored height, None for an empty store.
RangesTail(s) == IF s = {} THEN {} ELSE {Min(s)}

\* Store::insert of the contiguous run of headers lo..hi: rejected when a
\* height is already stored, and when the run is neither in front of the
\* head nor adjacent to a stored range.
StoreInsertOk(s, lo, hi) ==
    /\ lo <= hi
    /\ (lo..hi) \cap s = {}
    /\ IF s = {}
         THEN TRUE
         ELSE lo > Max(s) \/ (lo - 1) \in s \/ (hi + 1) \in s

\* Store::remove_tail(height): removes the header at `height` when it is the
\* current tail, and fails otherwise.
RemoveTailOk(s, h) == s # {} /\ Min(s) = h

\* Store::get_sampling_metadata(h): the headers at odd heights were sampled;
\* their CIDs, in the order of the Vec.
Sampled(h) == h % 2 = 1
CidsOf(h) == IF Sampled(h) THEN [i \in 1..CidsPerHeader |-> <<h, i>>] ELSE <<>>

AllCids == {<<h, i>> : h \in {x \in Heights : Sampled(x)}, i \in 1..CidsPerHeader}

----------------------------------------------------------------------------
\* Pruner worker.

\* pruner.rs: `tail_header.time() < pruning_window_end`
ShouldPruneInclusive(time, window_end) == time <= window_end
ShouldPrune(time, window_end) == time < window_end

\* NodeEvent::FatalPrunerError, with the PrunerError variant it carries.
FatalPrunerError(error) == [type |-> "FatalPrunerError", error |-> error]

\* Pruner::start, the spawned task: `run` returning an error ends the
\* worker, and the error is published.
WorkerFailedSilently(error) ==
    /\ ppc' = "failed"
    /\ pevents' = pevents
WorkerFailed(error) ==
    /\ ppc' = "failed"
    /\ pevents' = Append(pevents, FatalPrunerError(error))

\* try_prune_tail, entry: the window end is computed once per pass.
PrunerBeginPass ==
    /\ ppc = "tick"
    /\ pruning_window_end' = CheckedSubOrEpoch(clock, PRUNING_WINDOW)
    /\ ppc' = "read_tail"
    /\ passRemoved' = {}
    /\ passInserted' = FALSE
    /\ UNCHANGED <<store, clock, pcancelled, tail_height, cids, blockstore, pevents, pruned>>
    /\ UNCHANGED <<evars, svars, dvars>>

\* get_current_tail: stored_header_ranges().tail(); an empty store ends the pass.
PrunerReadTail ==
    /\ ppc = "read_tail"
    /\ IF RangesTail(store) = {}
         THEN /\ ppc' = "sleep"
              /\ tail_height' = {}
         ELSE /\ ppc' = "read_header"
              /\ tail_height' = RangesTail(store)
    /\ UNCHANGED <<store, clock, pcancelled, pruning_window_end, cids, blockstore,
                   pevents, passRemoved, passInserted, pruned>>
    /\ UNCHANGED <<evars, svars, dvars>>

\* get_current_tail: get_by_height and get_sampling_metadata, then the test
\* of the header's time in try_prune_tail.  A tail inside the window falls
\* off the end of the loop body.
PrunerReadHeader ==
    /\ ppc = "read_header"
    /\ \E h \in tail_height :
         IF h \notin store
           THEN /\ WorkerFailed("Store")
                /\ cids' = <<>>
           ELSE /\ pevents' = pevents
                /\ IF ShouldPrune(HeaderTime(h), pruning_window_end)
                     THEN /\ cids' = CidsOf(h)
                          /\ ppc' = "remove_cids"
                     ELSE /\ cids' = <<>>
                          /\ ppc' = "loop_end"
    /\ UNCHANGED <<store, clock, pcancelled, pruning_window_end, tail_height,
                   blockstore, passRemoved, passInserted, pruned>>
    /\ UNCHANGED <<evars, svars, dvars>>

\* `for cid in cids { self.blockstore.remove(&cid).await?; }`: one CID per
\* step; an error of the blockstore aborts the pass and the worker.
PrunerRemoveCidSkipping ==
    /\ ppc = "remove_cids"
    /\ cids # <<>>
    /\ \E ok \in BOOLEAN :
         IF ok
           THEN /\ cids' = Tail(cids)
                /\ UNCHANGED <<ppc, pevents, blockstore>>
           ELSE /\ WorkerFailed("Blockstore")
                /\ UNCHANGED <<blockstore, cids>>
    /\ UNCHANGED <<store, clock, pcancelled, pruning_window_end, tail_height,
                   passRemoved, passInserted, pruned>>
    /\ UNCHANGED <<evars, svars, dvars>>
PrunerRemoveCid ==
    /\ ppc = "remove_cids"
    /\ cids # <<>>
    /\ \E ok \in BOOLEAN :
         IF ok
           THEN /\ blockstore' = blockstore \ {Head(cids)}
                /\ cids' = Tail(cids)
                /\ UNCHANGED <<ppc, pevents>>
           ELSE /\ WorkerFailed("Blockstore")
                /\ UNCHANGED <<blockstore, cids>>
    /\ UNCHANGED <<store, clock, pcancelled, pruning_window_end, tail_height,
                   passRemoved, passInserted, pruned>>
    /\ UNCHANGED <<evars, svars, dvars>>

\* `self.store.remove_tail(height).await?; continue;`
PrunerRemoveHeaderUnchecked ==
    /\ ppc = "remove_cids"
    /\ cids = <<>>
    /\ \E h \in tail_height :
         /\ store' = store \ {h}
         /\ passRemoved' = passRemoved \cup {h}
         /\ pruned' = pruned \cup {h}
         /\ ppc' = "read_tail"
         /\ pevents' = pevents
    /\ UNCHANGED <<clock, pcancelled, pruning_window_end, tail_height, cids,
                   blockstore, passInserted>>
    /\ UNCHANGED <<evars, svars, dvars>>
PrunerRemoveHeader ==
    /\ ppc = "remove_cids"
    /\ cids = <<>>
    /\ \E h \in tail_height :
         IF RemoveTailOk(store, h)
           THEN /\ store' = store \ {h}
                /\ passRemoved' = passRemoved \cup {h}
                /\ pruned' = pruned \cup {h}
                /\ ppc' = "read_tail"
                /\ pevents' = pevents
           ELSE /\ WorkerFailed("Store")
                /\ UNCHANGED <<store, passRemoved, pruned>>
    /\ UNCHANGED <<clock, pcancelled, pruning_window_end, tail_height, cids,
                   blockstore, passInserted>>
    /\ UNCHANGED <<evars, svars, dvars>>

\* End of the body of `loop` in try_prune_tail: control returns to its top.
PrunerLoopEnd ==
    /\ ppc = "loop_end"
    /\ ppc' = "read_tail"
    /\ UNCHANGED <<store, clock, pcancelled, pruning_window_end, tail_height, cids,
                   blockstore, pevents, passRemoved, passInserted, pruned>>
    /\ UNCHANGED <<evars, svars, dvars>>

\* run: `select! { cancelled => break, sleep(12 s) => () }`
PrunerSleep ==
    /\ ppc = "sleep"
    /\ \/ pcancelled /\ ppc' = "stopped"
       \/ ppc' = "tick"
    /\ UNCHANGED <<store, clock, pcancelled, pruning_window_end, tail_height, cids,
                   blockstore, pevents, passRemoved, passInserted, pruned>>
    /\ UNCHANGED <<evars, svars, dvars>>

\* Pruner::stop / Drop for Pruner
PrunerStop ==
    /\ ~pcancelled
    /\ pcancelled' = TRUE
    /\ UNCHANGED <<store, clock, ppc, pruning_window_end, tail_height, cids,
                   blockstore, pevents, passRemoved, passInserted, pruned>>
    /\ UNCHANGED <<evars, svars, dvars>>

PrunerStep ==
    \/ PrunerBeginPass
    \/ PrunerReadTail
    \/ PrunerReadHeader
    \/ PrunerRemoveCid
    \/ PrunerRemoveHeader
    \/ PrunerLoopEnd
    \/ PrunerSleep

----------------------------------------------------------------------------
\* Environment of the pruner: the syncer's insertions into the shared store
\* and the passing of time.

StoreInsert ==
    /\ \E lo \in Heights : \E hi \in lo..MaxHeight :
         /\ StoreInsertOk(store, lo, hi)
         /\ store' = store \cup (lo..hi)
    /\ passInserted' = TRUE
    /\ UNCHANGED <<clock, ppc, pcancelled, pruning_window_end, tail_height, cids,
                   blockstore, pevents, passRemoved, pruned>>
    /\ UNCHANGED <<evars, svars, dvars>>

Tick ==
    /\ clock < MaxClock
    /\ clock' = clock + 1
    /\ UNCHANGED <<store, pvars, dvars>>
    /\ UNCHANGED <<evars, svars>>


----------------------------------------------------------------------------
\* Header exchange client: head requests.

MaxPeersOffByOne == 10 + 1
MAX_PEERS == 10
TIMEOUT == 10
MIN_HEAD_RESPONSES == 2

Peers == 1..NumPeers

\* ExtendedHeader values the peers answer a head request with: two headers of
\* height 1 with different hashes, one header of height 2.
HeadHeaders == {[height |-> 1, hash |-> "a"],
                [height |-> 1, hash |-> "b"],
                [height |-> 2, hash |-> "c"]}

\* HeaderResponse messages: a status code and a body; `valid` says whether the
\* body decodes into a header that passes ExtendedHeader::validate.
OkResponse(h) == [status_code |-> "OK", height |-> h.height, hash |-> h.hash,
                  valid |-> TRUE]
InvalidHeaderResponse(h) == [status_code |-> "OK", height |-> h.height,
                             hash |-> h.hash, valid |-> FALSE]

\* HeaderResponse messages with a status code other than OK: NotFound,
\* Invalid, and a code the protocol does not define (1234).
NotFoundResponse == [status_code |-> "NotFound", height |-> 0, hash |-> "",
                     valid |-> FALSE]
InvalidStatusResponse == [status_code |-> "Invalid", height |-> 0, hash |-> "",
                          valid |-> FALSE]
UnknownStatusResponse == [status_code |-> "1234", height |-> 0, hash |-> "",
                          valid |-> FALSE]

\* The replies a peer gives to a head request.
HeadReplies == {<<OkResponse(h)>> : h \in HeadHeaders}
                 \cup {<<InvalidHeaderResponse([height |-> 2, hash |-> "c"])>>}
                 \cup {<<NotFoundResponse>>}

\* The header of the chain at height h (ExtendedHeaderGenerator).
ChainHeader(h) == [height |-> h, hash |-> ToString(h)]

\* Results carried by the oneshot channels.
Ok(headers) == [tag |-> "Ok", headers |-> headers, err |-> ""]
Err(e) == [tag |-> "Err", headers |-> <<>>, err |-> e]

HeadRequest == [data |-> <<"Origin", 0>>, amount |-> 1]

\* The requests handed to on_send_request: the head request, and a request
\* for the head with an amount other than 1.
Requests == {HeadRequest, [data |-> <<"Origin", 0>>, amount |-> 2]}

\* celestia_types::consts::HASH_SIZE
HASH_SIZE == 32

\* HeaderRequest values of every shape: by origin height (0 asks for the
\* head), by hash (the hash bytes and their length), and without data.
OriginRequests ==
    {[data |-> <<"Origin", s>>, amount |-> n] : s \in {0, StartHeight}, n \in 0..MaxAmount}
HashRequests ==
    {[data |-> <<"Hash", ToString(StartHeight), len>>, amount |-> n] :
        len \in {2, HASH_SIZE}, n \in 0..MaxAmount}
NoDataRequests == {[data |-> <<"None">>, amount |-> n] : n \in 0..MaxAmount}
AllRequests == OriginRequests \cup HashRequests \cup NoDataRequests

\* HeaderRequestExt::is_valid
IsValidRequest(request) ==
    /\ request.amount >= 1
    /\ request.data[1] \in {"Origin", "Hash"}
    /\ (request.data = <<"Origin", 0>>) => request.amount = 1
    /\ (request.data[1] = "Hash") =>
          (request.amount = 1 /\ request.data[3] = HASH_SIZE)

\* The HeaderResponse messages a peer puts in its reply to a request by
\* height or by hash: headers of the chain from the requested height on, a
\* header that fails validation, and the statuses other than OK.
RangeMessages(request) ==
    {OkResponse(ChainHeader(h)) : h \in StartHeight..(StartHeight + request.amount)}
        \cup {InvalidHeaderResponse(ChainHeader(StartHeight))}
        \cup {NotFoundResponse, InvalidStatusResponse, UnknownStatusResponse}

\* The replies to such a request: messages in any order and number, from the
\* empty reply to one message more than requested.
RangeReplies(request) ==
    UNION {[1..k -> RangeMessages(request)] : k \in 0..(request.amount + 1)}

\* HeaderRequestExt::is_head_request
IsHeadRequest(request) == request.data = <<"Origin", 0>> /\ request.amount = 1

\* The replies a peer gives to a request.
Replies(request) ==
    IF IsHeadRequest(request) THEN HeadReplies ELSE RangeReplies(request)

\* The connected peers: the trusted ones, and the others as negative ids.
ConnectedPeers == trusted_peers \cup {0 - j : j \in 1..other_peers}

\* PeerTracker::best_peer(): Some connected peer, None when there is none.
BestPeer == IF ConnectedPeers = {} THEN {{}} ELSE {{p} : p \in ConnectedPeers}

\* PeerTracker::trusted_n_peers(n): up to n of the connected trusted peers.
TrustedNPeers(n) ==
    {P \in SUBSET trusted_peers :
        Cardinality(P) = (IF Cardinality(trusted_peers) < n
                            THEN Cardinality(trusted_peers) ELSE n)}

\* HeaderResponseExt::to_extended_header
ToExtendedHeader(response) ==
    IF response.status_code = "NotFound" THEN Err("HeaderNotFound")
    ELSE IF response.status_code # "OK" \/ ~response.valid THEN Err("InvalidResponse")
    ELSE Ok(<<[height |-> response.height, hash |-> response.hash]>>)

\* `headers.sort_unstable_by_key(|header| header.height())`, as an insertion sort.
RECURSIVE InsertByHeight(_, _)
InsertByHeight(h, sorted) ==
    IF sorted = <<>> THEN <<h>>
    ELSE IF h.height < Head(sorted).height THEN <<h>> \o sorted
    ELSE <<Head(sorted)>> \o InsertByHeight(h, Tail(sorted))

RECURSIVE SortByHeight(_)
SortByHeight(headers) ==
    IF headers = <<>> THEN <<>>
    ELSE InsertByHeight(Head(headers), SortByHeight(Tail(headers)))

\* `responses.len() > amount`
TooManyResponsesNever(request, responses) == FALSE
TooManyResponses(request, responses) == Len(responses) > request.amount

\* `header.to_extended_header()?` in the decoding loop: the positions whose
\* message does not decode; the first of them ends the function.
DecodeFailuresIgnored(decoded) == {}
DecodeFailures(decoded) == {i \in 1..Len(decoded) : decoded[i].tag = "Err"}

\* The loop over `headers.iter().enumerate()` of the arm
\* `(Some(Data::Origin(start)), amount)`: header i is at height start + i.
VerifyRangeFirstOnly(start, headers) == headers[1].height = start
VerifyRange(start, headers) ==
    \A i \in 1..Len(headers) : headers[i].height = start + (i - 1)

\* decode_and_verify_responses.  In the arm for a request by height the
\* pattern binds `amount` to headers.len(), not to the requested amount.
DecodeAndVerifyResponses(request, responses) ==
    IF responses = <<>> THEN Err("InvalidResponse")
    ELSE IF TooManyResponses(request, responses) THEN Err("InvalidResponse")
    ELSE LET decoded == [i \in 1..Len(responses) |-> ToExtendedHeader(responses[i])]
             failed == DecodeFailures(decoded)
         IN IF failed # {}
              THEN Err(decoded[Min(failed)].err)
              ELSE LET ok == SelectSeq(decoded, LAMBDA d : d.tag = "Ok")
                       headers == SortByHeight([i \in 1..Len(ok) |-> ok[i].headers[1]])
                       n == Len(headers)
                   IN IF request.data = <<"Origin", 0>> /\ n = 1
                        THEN Ok(headers)
                      ELSE IF request.data[1] = "Origin" /\ request.data[2] > 0 /\ n > 0
                        THEN IF VerifyRange(request.data[2], headers)
                               THEN Ok(headers)
                               ELSE Err("InvalidResponse")
                      ELSE IF request.data[1] = "Hash" /\ n = 1
                        THEN IF headers[1].hash = request.data[2]
                               THEN Ok(headers)
                               ELSE Err("InvalidResponse")
                      ELSE Err("InvalidResponse")

\* The head election's `filter_map(|v| v.ok()?.ok()?.into_iter().next())`:
\* the receivers (by position in rxs) that delivered a header.
Survivors(rxs, ch) ==
    {i \in 1..Len(rxs) : \E v \in ch[rxs[i]] : v.tag = "Ok" /\ v.headers # <<>>}

SurvivorHeader(rxs, ch, i) == (CHOOSE v \in ch[rxs[i]] : TRUE).headers[1]

\* `counter[&resp.hash()]`
PeerCount(rxs, ch, hash) ==
    Cardinality({i \in Survivors(rxs, ch) : SurvivorHeader(rxs, ch, i).hash = hash})

\* The sort key `Reverse((resp.height(), num_of_peers))`: a before-or-equal b.
KeyBeforeAscending(rxs, ch, a, b) ==
    LET ha == SurvivorHeader(rxs, ch, a)
        hb == SurvivorHeader(rxs, ch, b)
    IN \/ ha.height < hb.height
       \/ /\ ha.height = hb.height
          /\ PeerCount(rxs, ch, ha.hash) <= PeerCount(rxs, ch, hb.hash)
KeyBefore(rxs, ch, a, b) ==
    LET ha == SurvivorHeader(rxs, ch, a)
        hb == SurvivorHeader(rxs, ch, b)
    IN \/ ha.height > hb.height
       \/ /\ ha.height = hb.height
          /\ PeerCount(rxs, ch, ha.hash) >= PeerCount(rxs, ch, hb.hash)

\* `resps.sort_unstable_by_key(..)`: every order the unstable sort may leave
\* the survivors in (elements of equal key in any order).
RECURSIVE SortedOrders(_, _, _)
SortedOrders(rxs, ch, S) ==
    IF S = {} THEN {<<>>}
    ELSE UNION {{<<m>> \o t : t \in SortedOrders(rxs, ch, S \ {m})} :
                   m \in {x \in S : \A y \in S : KeyBefore(rxs, ch, x, y)}}

\* The loop returning the first response with at least MIN_HEAD_RESPONSES
\* peers, and the fallback to the first response.
RECURSIVE FirstWithQuorum(_, _, _)
FirstWithQuorumNone(rxs, ch, order) == {}
FirstWithQuorum(rxs, ch, order) ==
    IF order = <<>> THEN {}
    ELSE IF PeerCount(rxs, ch, SurvivorHeader(rxs, ch, Head(order)).hash)
              >= MIN_HEAD_RESPONSES
      THEN {Head(order)}
      ELSE FirstWithQuorum(rxs, ch, Tail(order))

ElectFrom(rxs, ch, order) ==
    IF FirstWithQuorum(rxs, ch, order) # {}
      THEN SurvivorHeader(rxs, ch, CHOOSE i \in FirstWithQuorum(rxs, ch, order) : TRUE)
      ELSE SurvivorHeader(rxs, ch, Head(order))

\* The results the election may deliver to the caller.
HeadElectionResultsUnchecked(rxs, ch) ==
    IF Survivors(rxs, ch) = {}
      THEN {Err("ChannelClosed")}
      ELSE {Ok(<<ElectFrom(rxs, ch, order)>>) :
               order \in SortedOrders(rxs, ch, Survivors(rxs, ch))}
HeadElectionResults(rxs, ch) ==
    IF Survivors(rxs, ch) = {}
      THEN {Err("HeaderNotFound")}
      ELSE {Ok(<<ElectFrom(rxs, ch, order)>>) :
               order \in SortedOrders(rxs, ch, Survivors(rxs, ch))}

\* `join_all(rxs).await` has completed: every receiver holds a result.
AllJoinedAny(rxs, ch) == \E i \in 1..Len(rxs) : ch[rxs[i]] # {}
AllJoined(rxs, ch) == \A i \in 1..Len(rxs) : ch[rxs[i]] # {}

\* The State of a request: the request, the responder, the start instant.
State(request, respond_to) ==
    [request |-> request, respond_to |-> respond_to, started_at |-> etime]

\* The i-th peer of P, in the order the loop `for peer in peers` visits them.
NthOf(P, i) == CHOOSE p \in P : Cardinality({q \in P : q < p}) = i - 1

\* send_head_request: one request and one oneshot channel per peer; ids are
\* handed out in sequence by RequestSender::send_request.
\* Channel 0 is the caller's responder; channel i belongs to request id i.
SendHeadRequestUnchecked(request) ==
    \E P \in TrustedNPeers(MAX_PEERS) :
        IF P = {}
          THEN /\ chan' = [chan EXCEPT ![0] = {Err("HeaderNotFound")}]
               /\ UNCHANGED <<reqs, next_req_id, sent, head_rxs>>
          ELSE LET n == Cardinality(P)
                   ids == next_req_id..(next_req_id + n - 1)
               IN /\ reqs' = [id \in (DOMAIN reqs) \cup ids |->
                                IF id \in ids THEN State(request, id) ELSE reqs[id]]
                  /\ sent' = [id \in (DOMAIN sent) \cup ids |->
                                IF id \in ids
                                  THEN [peer |-> NthOf(P, id - next_req_id + 1),
                                        request |-> request]
                                  ELSE sent[id]]
                  /\ next_req_id' = next_req_id + n
                  /\ head_rxs' = [i \in 1..n |-> next_req_id + i - 1]
                  /\ UNCHANGED chan
SendHeadRequest(request) ==
    \E P \in TrustedNPeers(MAX_PEERS) :
        IF P = {}
          THEN /\ chan' = [chan EXCEPT ![0] = {Err("NoConnectedPeers")}]
               /\ UNCHANGED <<reqs, next_req_id, sent, head_rxs>>
          ELSE LET n == Cardinality(P)
                   ids == next_req_id..(next_req_id + n - 1)
               IN /\ reqs' = [id \in (DOMAIN reqs) \cup ids |->
                                IF id \in ids THEN State(request, id) ELSE reqs[id]]
                  /\ sent' = [id \in (DOMAIN sent) \cup ids |->
                                IF id \in ids
                                  THEN [peer |-> NthOf(P, id - next_req_id + 1),
                                        request |-> request]
                                  ELSE sent[id]]
                  /\ next_req_id' = next_req_id + n
                  /\ head_rxs' = [i \in 1..n |-> next_req_id + i - 1]
                  /\ UNCHANGED chan

\* send_request: the request goes to the best peer and the caller's
\* responder is kept in its State.  The amounts of the model convert to
\* usize, so `usize::try_from(request.amount)` never fails here.
SendRequest(request) ==
    \E best \in BestPeer :
        IF best = {}
          THEN /\ chan' = [chan EXCEPT ![0] = {Err("NoConnectedPeers")}]
               /\ UNCHANGED <<reqs, next_req_id, sent, head_rxs>>
          ELSE /\ reqs' = [id \in (DOMAIN reqs) \cup {next_req_id} |->
                             IF id = next_req_id THEN State(request, 0) ELSE reqs[id]]
               /\ sent' = [id \in (DOMAIN sent) \cup {next_req_id} |->
                             IF id = next_req_id
                               THEN [peer |-> CHOOSE p \in best : TRUE,
                                     request |-> request]
                               ELSE sent[id]]
               /\ next_req_id' = next_req_id + 1
               /\ UNCHANGED <<chan, head_rxs>>

\* The body of on_send_request.
HandleSendRequestUnvalidated(request) ==
    IF IsHeadRequest(request)
      THEN SendHeadRequest(request)
      ELSE SendRequest(request)
HandleSendRequest(request) ==
    IF ~IsValidRequest(request)
      THEN /\ chan' = [chan EXCEPT ![0] = {Err("InvalidRequest")}]
           /\ UNCHANGED <<reqs, next_req_id, sent, head_rxs>>
      ELSE IF IsHeadRequest(request)
             THEN SendHeadRequest(request)
             ELSE SendRequest(request)

\* on_send_request; the caller hands in one request for the head.
OnSendRequest ==
    /\ next_req_id = 1
    /\ chan[0] = {}
    /\ \E request \in Requests : HandleSendRequest(request)
    /\ UNCHANGED <<trusted_peers, decode_tasks, etime>>
    /\ UNCHANGED <<store, clock, pvars, dvars, svars>>

\* on_send_request; the caller hands in one request of any shape.
OnSendAnyRequest ==
    /\ next_req_id = 1
    /\ chan[0] = {}
    /\ \E request \in AllRequests : HandleSendRequest(request)
    /\ UNCHANGED <<trusted_peers, decode_tasks, etime>>
    /\ UNCHANGED <<store, clock, pvars, dvars, svars>>

\* on_response_received, for a reply to any request that was sent: the State
\* leaves the map and the decoding is spawned; a response for an id that is
\* not pending is dropped.
OnResponseReceivedKeeping ==
    /\ \E id \in DOMAIN sent :
         IF id \in DOMAIN reqs
           THEN \E responses \in Replies(reqs[id].request) :
                  /\ decode_tasks' = decode_tasks \cup
                                       {[state |-> reqs[id], responses |-> responses]}
                  /\ UNCHANGED reqs
           ELSE UNCHANGED <<reqs, decode_tasks>>
    /\ UNCHANGED <<trusted_peers, next_req_id, sent, chan, head_rxs, etime>>
    /\ UNCHANGED <<store, clock, pvars, dvars, svars>>
OnResponseReceived ==
    /\ \E id \in DOMAIN sent :
         IF id \in DOMAIN reqs
           THEN \E responses \in Replies(reqs[id].request) :
                  /\ reqs' = [i \in (DOMAIN reqs) \ {id} |-> reqs[i]]
                  /\ decode_tasks' = decode_tasks \cup
                                       {[state |-> reqs[id], responses |-> responses]}
           ELSE UNCHANGED <<reqs, decode_tasks>>
    /\ UNCHANGED <<trusted_peers, next_req_id, sent, chan, head_rxs, etime>>
    /\ UNCHANGED <<store, clock, pvars, dvars, svars>>

\* The task spawned by on_response_received.
DecodeTask ==
    /\ \E t \in decode_tasks :
         /\ decode_tasks' = decode_tasks \ {t}
         /\ chan' = [chan EXCEPT ![t.state.respond_to] =
                        {DecodeAndVerifyResponses(t.state.request, t.responses)}]
    /\ UNCHANGED <<trusted_peers, reqs, next_req_id, sent, head_rxs, etime>>
    /\ UNCHANGED <<store, clock, pvars, dvars, svars>>

\* on_failure, for any request that was sent: the State leaves the map and
\* the responder gets the error; a failure for an id that is not pending is
\* dropped.
OnFailureSilent ==
    /\ \E id \in DOMAIN sent :
         IF id \in DOMAIN reqs
           THEN /\ reqs' = [i \in (DOMAIN reqs) \ {id} |-> reqs[i]]
                /\ UNCHANGED chan
           ELSE UNCHANGED <<reqs, chan>>
    /\ UNCHANGED <<trusted_peers, next_req_id, sent, decode_tasks, head_rxs, etime>>
    /\ UNCHANGED <<store, clock, pvars, dvars, svars>>
OnFailure ==
    /\ \E id \in DOMAIN sent :
         IF id \in DOMAIN reqs
           THEN /\ reqs' = [i \in (DOMAIN reqs) \ {id} |-> reqs[i]]
                /\ chan' = [chan EXCEPT ![reqs[id].respond_to] =
                               {Err("OutboundFailure(ConnectionClosed)")}]
           ELSE UNCHANGED <<reqs, chan>>
    /\ UNCHANGED <<trusted_peers, next_req_id, sent, decode_tasks, head_rxs, etime>>
    /\ UNCHANGED <<store, clock, pvars, dvars, svars>>

\* `state.started_at.elapsed() >= TIMEOUT`
Expired(state) == etime - state.started_at >= TIMEOUT

\* poll -> prune_expired_requests
PollSilent ==
    /\ LET expired_reqs == {id \in DOMAIN reqs : Expired(reqs[id])}
       IN /\ expired_reqs # {}
          /\ reqs' = [i \in (DOMAIN reqs) \ expired_reqs |-> reqs[i]]
          /\ UNCHANGED chan
    /\ UNCHANGED <<trusted_peers, next_req_id, sent, decode_tasks, head_rxs, etime>>
    /\ UNCHANGED <<store, clock, pvars, dvars, svars>>
Poll ==
    /\ LET expired_reqs == {id \in DOMAIN reqs : Expired(reqs[id])}
       IN /\ expired_reqs # {}
          /\ reqs' = [i \in (DOMAIN reqs) \ expired_reqs |-> reqs[i]]
          /\ chan' = [c \in DOMAIN chan |->
                        IF \E id \in expired_reqs : reqs[id].respond_to = c
                          THEN {Err("OutboundFailure(Timeout)")}
                          ELSE chan[c]]
    /\ UNCHANGED <<trusted_peers, next_req_id, sent, decode_tasks, head_rxs, etime>>
    /\ UNCHANGED <<store, clock, pvars, dvars, svars>>

\* Time passes while requests are pending.
ExchangeTick ==
    /\ reqs # << >>
    /\ etime < TIMEOUT
    /\ etime' = etime + TickSecs
    /\ UNCHANGED <<trusted_peers, reqs, next_req_id, sent, decode_tasks, chan, head_rxs>>
    /\ UNCHANGED <<store, clock, pvars, dvars, svars>>

\* The task spawned by send_head_request: join_all, then the election.
HeadElection ==
    /\ head_rxs # <<>>
    /\ chan[0] = {}
    /\ AllJoined(head_rxs, chan)
    /\ \E result \in HeadElectionResults(head_rxs, chan) :
         chan' = [chan EXCEPT ![0] = {result}]
    /\ UNCHANGED <<trusted_peers, reqs, next_req_id, sent, decode_tasks, head_rxs, etime>>
    /\ UNCHANGED <<store, clock, pvars, dvars, svars>>


----------------------------------------------------------------------------
\* Syncer worker.

MaxHeadersInBatchOffByOne == BatchLimit + 1
MAX_HEADERS_IN_BATCH == BatchLimit
HeadersChannelCapacity == 1

Batch(lo, hi) == [lo |-> lo, hi |-> hi]

\* PeerTracker::info()
PeerTrackerInfo ==
    [num_connected_peers |-> Cardinality(trusted_peers) + other_peers,
     num_connected_trusted_peers |-> Cardinality(trusted_peers)]

\* in_syncing_window: `header.time().after(now - SYNCING_WINDOW)`
InSyncingWindow(h) == HeaderTime(h) > CheckedSubOrEpoch(clock, SYNCING_WINDOW)

\* set_subjective_head_height
SetSubjectiveHeadHeightUnguarded(old, height) == {height}
SetSubjectiveHeadHeight(old, height) ==
    IF \E old_height \in old : height <= old_height THEN old ELSE {height}

\* syncing_info: `subjective_head: self.subjective_head_height.unwrap_or(0)`
SyncingInfo ==
    [stored_headers |-> store,
     subjective_head |-> IF subjective_head_height = {}
                           THEN 0
                           ELSE CHOOSE h \in subjective_head_height : TRUE]

\* store::utils::get_most_recent_missing_range: the range above the stored
\* head when the store is behind the network head, else the gap below the
\* highest stored range.
MostRecentMissingRange(head_height, s) ==
    IF s = {} THEN Batch(1, head_height)
    ELSE IF Max(s) < head_height THEN Batch(Max(s) + 1, head_height)
    ELSE LET top_start == Min({l \in s : \A h \in l..Max(s) : h \in s})
             below == {h \in s : h < top_start}
             penultimate_end == IF below = {} THEN 0 ELSE Max(below)
         IN Batch(penultimate_end + 1, top_start - 1)

\* store::utils::calculate_range_to_fetch: the most recent missing range,
\* truncated to the syncing window edge and then to `limit` headers counted
\* from its end.  None stands for the empty range.
CalculateRangeToFetch(head_height, s, window_end, limit) ==
    LET missing == MostRecentMissingRange(head_height, s)
        lo1 == IF \E w \in window_end : missing.lo < w
                 THEN (CHOOSE w \in window_end : TRUE) + 1
                 ELSE missing.lo
        lo2 == IF missing.hi - lo1 + 1 > limit THEN missing.hi - limit + 1 ELSE lo1
    IN IF lo2 > missing.hi THEN {} ELSE {Batch(lo2, missing.hi)}

\* The tasks spawned by fetch_next_batch: `tracked` says that the task's
\* cancellation token is the one held by ongoing_batch.
FetchTask(b, tracked) == [lo |-> b.lo, hi |-> b.hi, tracked |-> tracked]

TrackedTasks(tasks) == {t \in BagToSet(tasks) : t.tracked}

\* `self.ongoing_batch.take()` without cancelling: the token is dropped and
\* the task keeps running.
Untrack(tasks) ==
    IF TrackedTasks(tasks) = {} THEN tasks
    ELSE LET t == CHOOSE t \in TrackedTasks(tasks) : TRUE
         IN (tasks (-) SetToBag({t})) (+) SetToBag({[t EXCEPT !.tracked = FALSE]})

\* `ongoing.cancellation_token.cancel()`: the task, if still running, is dropped.
CancelTracked(tasks) == tasks (-) SetToBag(TrackedTasks(tasks))

\* NodeEvent, with the heights it carries (0 where it carries none).
Event(type, from_height, to_height) ==
    [type |-> type, from_height |-> from_height, to_height |-> to_height]

\* fetch_next_batch, entered with the given ongoing batch, subjective head,
\* store content and running tasks; `events` are the events the handler
\* calling it has sent before.
FetchNextBatchOverEdge(ongoing, subjective, s, tasks, events) ==
    LET next_batch ==
            IF subjective = {} THEN {}
            ELSE CalculateRangeToFetch(CHOOSE h \in subjective : TRUE, s,
                                       estimated_syncing_window_end,
                                       MAX_HEADERS_IN_BATCH)
    IN IF \/ ongoing # {}
          \/ PeerTrackerInfo.num_connected_peers = 0
          \/ subjective = {}
          \/ next_batch = {}
         THEN /\ ongoing_batch' = ongoing
              /\ fetch_tasks' = tasks
              /\ emitted' = events
              /\ UNCHANGED estimated_syncing_window_end
         ELSE LET b == CHOOSE b \in next_batch : TRUE
              IN /\ BagCardinality(tasks) < MaxTasks
                 /\ ongoing_batch' = {b}
                 /\ fetch_tasks' = tasks (+) SetToBag({FetchTask(b, TRUE)})
                 /\ emitted' = Append(events, Event("FetchingHeadersStarted", b.lo, b.hi))
                 /\ estimated_syncing_window_end' =
                      IF (b.hi + 1) \in s /\ ~InSyncingWindow(b.hi + 1)
                        THEN {b.hi + 1}
                        ELSE estimated_syncing_window_end
FetchNextBatch(ongoing, subjective, s, tasks, events) ==
    LET next_batch ==
            IF subjective = {} THEN {}
            ELSE CalculateRangeToFetch(CHOOSE h \in subjective : TRUE, s,
                                       estimated_syncing_window_end,
                                       MAX_HEADERS_IN_BATCH)
    IN IF \/ ongoing # {}
          \/ PeerTrackerInfo.num_connected_peers = 0
          \/ subjective = {}
          \/ next_batch = {}
         THEN /\ ongoing_batch' = ongoing
              /\ fetch_tasks' = tasks
              /\ emitted' = events
              /\ UNCHANGED estimated_syncing_window_end
         ELSE LET b == CHOOSE b \in next_batch : TRUE
              IN IF (b.hi + 1) \in s /\ ~InSyncingWindow(b.hi + 1)
                   THEN /\ estimated_syncing_window_end' = {b.hi + 1}
                        /\ ongoing_batch' = ongoing
                        /\ fetch_tasks' = tasks
                        /\ emitted' = events
                   ELSE /\ BagCardinality(tasks) < MaxTasks
                        /\ ongoing_batch' = {b}
                        /\ fetch_tasks' = tasks (+) SetToBag({FetchTask(b, TRUE)})
                        /\ emitted' =
                             Append(events, Event("FetchingHeadersStarted", b.lo, b.hi))
                        /\ UNCHANGED estimated_syncing_window_end

\* peer_tracker_info_watcher is a local of connected_event_loop: it exists,
\* and can hold an unseen value, only while that loop runs.
WatchingPeerTracker == spc = "connected"

NoTryInit == [pc |-> "none", head |-> 0]

\* run: the top of the loop; connecting_event_loop spawns try_init.
SyncerRunLoop ==
    /\ spc = "run"
    /\ IF scancelled
         THEN /\ spc' = "stopped"
              /\ emitted' = <<>>
              /\ UNCHANGED try_init_task
         ELSE /\ spc' = "connecting"
              /\ emitted' = <<Event("FetchingHeadHeaderStarted", 0, 0)>>
              /\ try_init_task' = [pc |-> "wait_connected_trusted", head |-> 0]
    /\ UNCHANGED <<scancelled, subjective_head_height, ongoing_batch,
                   estimated_syncing_window_end, headers_rx, fetch_tasks,
                   header_sub, header_sub_changed, other_peers, peer_tracker_changed>>
    /\ UNCHANGED <<store, clock, pvars, dvars, evars>>
    /\ UNCHANGED ivars

\* try_init: `p2p.wait_connected_trusted().await?`
TryInitWithoutWaiting ==
    /\ try_init_task.pc = "wait_connected_trusted"
    /\ try_init_task' = [pc |-> "get_head_header", head |-> 0]
    /\ UNCHANGED <<spc, scancelled, subjective_head_height, ongoing_batch,
                   estimated_syncing_window_end, headers_rx, fetch_tasks,
                   header_sub, header_sub_changed, other_peers, peer_tracker_changed>>
    /\ UNCHANGED <<store, clock, pvars, dvars, evars>>
    /\ UNCHANGED ivars
    /\ emitted' = <<>>
TryInitWaitConnectedTrusted ==
    /\ try_init_task.pc = "wait_connected_trusted"
    /\ PeerTrackerInfo.num_connected_trusted_peers > 0
    /\ try_init_task' = [pc |-> "get_head_header", head |-> 0]
    /\ UNCHANGED <<spc, scancelled, subjective_head_height, ongoing_batch,
                   estimated_syncing_window_end, headers_rx, fetch_tasks,
                   header_sub, header_sub_changed, other_peers, peer_tracker_changed>>
    /\ UNCHANGED <<store, clock, pvars, dvars, evars>>
    /\ UNCHANGED ivars
    /\ emitted' = <<>>

\* try_init: `p2p.get_head_header().await?`; on an error spawn_try_init
\* backs off and calls try_init again.
TryInitGetHeadHeader ==
    /\ try_init_task.pc = "get_head_header"
    /\ \/ \E network_head \in Heights :
            try_init_task' = [pc |-> "insert", head |-> network_head]
       \/ try_init_task' = [pc |-> "wait_connected_trusted", head |-> 0]
    /\ UNCHANGED <<spc, scancelled, subjective_head_height, ongoing_batch,
                   estimated_syncing_window_end, headers_rx, fetch_tasks,
                   header_sub, header_sub_changed, other_peers, peer_tracker_changed>>
    /\ UNCHANGED <<store, clock, pvars, dvars, evars>>
    /\ UNCHANGED ivars
    /\ emitted' = <<>>

\* try_init: `store.insert(network_head.clone()).await?`
TryInitInsertReplacing ==
    /\ try_init_task.pc = "insert"
    /\ store' = {try_init_task.head}
    /\ try_init_task' = [try_init_task EXCEPT !.pc = "init_header_sub"]
    /\ UNCHANGED <<spc, scancelled, subjective_head_height, ongoing_batch,
                   estimated_syncing_window_end, headers_rx, fetch_tasks,
                   header_sub, header_sub_changed, other_peers, peer_tracker_changed>>
    /\ UNCHANGED <<clock, pvars, dvars, evars>>
    /\ UNCHANGED ivars
    /\ emitted' = <<>>
TryInitInsert ==
    /\ try_init_task.pc = "insert"
    /\ IF StoreInsertOk(store, try_init_task.head, try_init_task.head)
         THEN /\ store' = store \cup {try_init_task.head}
              /\ try_init_task' = [try_init_task EXCEPT !.pc = "init_header_sub"]
         ELSE /\ try_init_task' = [pc |-> "wait_connected_trusted", head |-> 0]
              /\ UNCHANGED store
    /\ UNCHANGED <<spc, scancelled, subjective_head_height, ongoing_batch,
                   estimated_syncing_window_end, headers_rx, fetch_tasks,
                   header_sub, header_sub_changed, other_peers, peer_tracker_changed>>
    /\ UNCHANGED <<clock, pvars, dvars, evars>>
    /\ UNCHANGED ivars
    /\ emitted' = <<>>

\* try_init: `p2p.init_header_sub(network_head).await?`, then the result is
\* sent to the worker.
TryInitHeaderSub ==
    /\ try_init_task.pc = "init_header_sub"
    /\ header_sub' = {try_init_task.head}
    /\ header_sub_changed' = TRUE
    /\ try_init_task' = [try_init_task EXCEPT !.pc = "done"]
    /\ UNCHANGED <<spc, scancelled, subjective_head_height, ongoing_batch,
                   estimated_syncing_window_end, headers_rx, fetch_tasks,
                   other_peers, peer_tracker_changed>>
    /\ UNCHANGED <<store, clock, pvars, dvars, evars>>
    /\ UNCHANGED ivars
    /\ emitted' = <<>>

\* connecting_event_loop: the branch of try_init_result, and the entry of
\* connected_event_loop that follows the break.
SyncerOnTryInitResult ==
    /\ spc = "connecting"
    /\ try_init_task.pc = "done"
    /\ try_init_task' = NoTryInit
    /\ LET subjective == SetSubjectiveHeadHeight(subjective_head_height,
                                                 try_init_task.head)
           finished == <<Event("FetchingHeadHeaderFinished",
                               try_init_task.head, try_init_task.head)>>
       IN /\ subjective_head_height' = subjective
          /\ IF scancelled
               THEN /\ spc' = "stopped"
                    /\ emitted' = finished
                    /\ UNCHANGED <<ongoing_batch, estimated_syncing_window_end,
                                   fetch_tasks, peer_tracker_changed>>
               ELSE /\ peer_tracker_changed' = FALSE
                    /\ IF PeerTrackerInfo.num_connected_peers = 0
                         THEN /\ spc' = "run"
                              /\ emitted' = finished
                              /\ UNCHANGED <<ongoing_batch,
                                             estimated_syncing_window_end,
                                             fetch_tasks>>
                         ELSE /\ spc' = "connected"
                              /\ FetchNextBatch(ongoing_batch, subjective, store,
                                                fetch_tasks, finished)
    /\ UNCHANGED <<scancelled, headers_rx, header_sub, header_sub_changed, other_peers>>
    /\ UNCHANGED <<store, clock, pvars, dvars, evars>>
    /\ UNCHANGED ivars

\* Both event loops: the branch of `cancellation_token.cancelled()`; the
\* connected loop takes and cancels the ongoing batch on its way out.
SyncerOnCancelled ==
    /\ spc \in {"connecting", "connected"}
    /\ scancelled
    /\ spc' = "stopped"
    /\ ongoing_batch' = {}
    /\ fetch_tasks' = CancelTracked(fetch_tasks)
    /\ peer_tracker_changed' = FALSE
    /\ UNCHANGED <<scancelled, subjective_head_height, estimated_syncing_window_end,
                   headers_rx, try_init_task, header_sub, header_sub_changed,
                   other_peers>>
    /\ UNCHANGED <<store, clock, pvars, dvars, evars>>
    /\ UNCHANGED ivars
    /\ emitted' = <<>>

\* connected_event_loop: the branch of `peer_tracker_info_watcher.changed()`.
SyncerOnPeerTrackerChangedKeepingBatch ==
    /\ spc = "connected"
    /\ peer_tracker_changed
    /\ peer_tracker_changed' = FALSE
    /\ IF PeerTrackerInfo.num_connected_peers = 0
         THEN spc' = "run"
         ELSE UNCHANGED spc
    /\ UNCHANGED <<scancelled, subjective_head_height, ongoing_batch,
                   estimated_syncing_window_end, headers_rx, fetch_tasks,
                   try_init_task, header_sub, header_sub_changed, other_peers>>
    /\ UNCHANGED <<store, clock, pvars, dvars, evars>>
    /\ UNCHANGED ivars
    /\ emitted' = <<>>
SyncerOnPeerTrackerChanged ==
    /\ spc = "connected"
    /\ peer_tracker_changed
    /\ peer_tracker_changed' = FALSE
    /\ IF PeerTrackerInfo.num_connected_peers = 0
         THEN /\ spc' = "run"
              /\ ongoing_batch' = {}
              /\ fetch_tasks' = CancelTracked(fetch_tasks)
         ELSE UNCHANGED <<spc, ongoing_batch, fetch_tasks>>
    /\ UNCHANGED <<scancelled, subjective_head_height, estimated_syncing_window_end,
                   headers_rx, try_init_task, header_sub, header_sub_changed,
                   other_peers>>
    /\ UNCHANGED <<store, clock, pvars, dvars, evars>>
    /\ UNCHANGED ivars
    /\ emitted' = <<>>

\* on_header_sub_message: the new head is inserted when it is adjacent to
\* the head of the store and the store accepts it.
HeaderSubInsertAny(s, new_head_height) ==
    IF StoreInsertOk(s, new_head_height, new_head_height)
      THEN s \cup {new_head_height}
      ELSE s
HeaderSubInsert(s, new_head_height) ==
    IF /\ s # {}
       /\ Max(s) + 1 = new_head_height
       /\ StoreInsertOk(s, new_head_height, new_head_height)
      THEN s \cup {new_head_height}
      ELSE s

\* connected_event_loop: the branch of `header_sub_watcher.changed()`:
\* on_header_sub_message, then fetch_next_batch. The watcher's value is
\* read only after `changed()`, so a value that has been seen is dropped.
SyncerOnHeaderSubMessage ==
    /\ spc = "connected"
    /\ header_sub_changed
    /\ header_sub_changed' = FALSE
    /\ header_sub' = {}
    /\ IF subjective_head_height = {} \/ header_sub = {}
         THEN /\ UNCHANGED <<subjective_head_height, store>>
              /\ FetchNextBatch(ongoing_batch, subjective_head_height, store,
                                fetch_tasks, <<>>)
         ELSE LET new_head_height == CHOOSE h \in header_sub : TRUE
                  subjective == SetSubjectiveHeadHeight(subjective_head_height,
                                                        new_head_height)
                  inserted == HeaderSubInsert(store, new_head_height)
                  added == IF inserted # store
                             THEN <<Event("AddedHeaderFromHeaderSub",
                                          new_head_height, new_head_height)>>
                             ELSE <<>>
              IN /\ subjective_head_height' = subjective
                 /\ store' = inserted
                 /\ FetchNextBatch(ongoing_batch, subjective, inserted, fetch_tasks,
                                   added)
    /\ UNCHANGED <<spc, scancelled, headers_rx, try_init_task, other_peers,
                   peer_tracker_changed>>
    /\ UNCHANGED <<clock, pvars, dvars, evars>>
    /\ UNCHANGED ivars

\* The results a fetch task sends: "Ok" carries the headers of the batch,
\* "Bad" carries headers the store rejects (heights that are not
\* contiguous, or headers of another chain), "Err" is a P2pError.
FetchResults == {"Ok", "Bad", "Err"}

\* `self.store.insert(headers)` of a result's headers succeeds.
FetchResultStored(s, r) == r.res = "Ok" /\ StoreInsertOk(s, r.lo, r.hi)

\* on_fetch_next_batch_result: the store after the call. A result received
\* with no batch ongoing is discarded.
FetchResultInsertNothing(s, ongoing, r) == s
FetchResultInsertUnchecked(s, ongoing, r) ==
    IF ongoing # {} /\ r.res # "Err" THEN s \cup (r.lo..r.hi) ELSE s
FetchResultInsert(s, ongoing, r) ==
    IF ongoing # {} /\ FetchResultStored(s, r) THEN s \cup (r.lo..r.hi) ELSE s

\* on_fetch_next_batch_result: the events it sends, carrying the range of
\* the ongoing batch. After a failed insert FetchingHeadersFailed is sent
\* and the function goes on to send FetchingHeadersFinished.
FetchResultEvents(s, ongoing, r) ==
    IF ongoing = {} THEN <<>>
    ELSE LET b == CHOOSE b \in ongoing : TRUE
         IN IF r.res = "Err"
              THEN <<Event("FetchingHeadersFailed", b.lo, b.hi)>>
              ELSE IF ~FetchResultStored(s, r)
                     THEN <<Event("FetchingHeadersFailed", b.lo, b.hi),
                            Event("FetchingHeadersFinished", b.lo, b.hi)>>
                     ELSE <<Event("FetchingHeadersFinished", b.lo, b.hi)>>

\* connected_event_loop: the branch of `headers_rx.recv()`:
\* on_fetch_next_batch_result, then fetch_next_batch.
SyncerOnFetchNextBatchResult ==
    /\ spc = "connected"
    /\ headers_rx # <<>>
    /\ headers_rx' = Tail(headers_rx)
    /\ LET r == Head(headers_rx)
           inserted == FetchResultInsert(store, ongoing_batch, r)
       IN /\ store' = inserted
          /\ FetchNextBatch({}, subjective_head_height, inserted,
                            Untrack(fetch_tasks),
                            FetchResultEvents(store, ongoing_batch, r))
    /\ UNCHANGED <<spc, scancelled, subjective_head_height, try_init_task,
                   header_sub, header_sub_changed, other_peers, peer_tracker_changed>>
    /\ UNCHANGED <<clock, pvars, dvars, evars>>
    /\ UNCHANGED ivars

\* The task spawned by fetch_next_batch: get_unverified_header_range
\* answers with the headers of the batch or with an error, and the result
\* enters the channel when it has room.
FetchTaskDone ==
    /\ Len(headers_rx) < HeadersChannelCapacity
    /\ \E t \in BagToSet(fetch_tasks) : \E res \in FetchResults :
         /\ headers_rx' = Append(headers_rx, [res |-> res, lo |-> t.lo, hi |-> t.hi])
         /\ fetch_tasks' = fetch_tasks (-) SetToBag({t})
         /\ ongoing_batch' = ongoing_batch
    /\ UNCHANGED <<spc, scancelled, subjective_head_height,
                   estimated_syncing_window_end, try_init_task, header_sub,
                   header_sub_changed, other_peers, peer_tracker_changed>>
    /\ UNCHANGED <<store, clock, pvars, dvars, evars>>
    /\ UNCHANGED ivars
    /\ emitted' = <<>>

\* The fetch task whose peer answers the range request with the headers
\* asked for.
FetchTaskAnswered ==
    /\ FetchTaskDone
    /\ headers_rx'[Len(headers_rx')].res = "Ok"

\* Syncer::stop / Drop for Syncer: the worker's token and all its child
\* tokens are cancelled; the cancellable tasks are dropped.
SyncerStop ==
    /\ ~scancelled
    /\ scancelled' = TRUE
    /\ fetch_tasks' = EmptyBag
    /\ try_init_task' = NoTryInit
    /\ UNCHANGED <<spc, subjective_head_height, ongoing_batch,
                   estimated_syncing_window_end, headers_rx, header_sub,
                   header_sub_changed, other_peers, peer_tracker_changed>>
    /\ UNCHANGED <<store, clock, pvars, dvars, evars>>
    /\ UNCHANGED ivars
    /\ emitted' = <<>>

\* MockP2pHandle::announce_peer_connected
AnnouncePeerConnected ==
    /\ PeerTrackerInfo.num_connected_peers < MaxConnected
    /\ other_peers' = other_peers + 1
    /\ peer_tracker_changed' = WatchingPeerTracker
    /\ UNCHANGED <<spc, scancelled, subjective_head_height, ongoing_batch,
                   estimated_syncing_window_end, headers_rx, fetch_tasks,
                   try_init_task, header_sub, header_sub_changed>>
    /\ UNCHANGED <<store, clock, pvars, dvars, evars>>
    /\ UNCHANGED ivars
    /\ emitted' = <<>>

\* MockP2pHandle::announce_trusted_peer_connected
AnnounceTrustedPeerConnected ==
    /\ PeerTrackerInfo.num_connected_peers < MaxConnected
    /\ trusted_peers' = trusted_peers \cup {Cardinality(trusted_peers) + 1}
    /\ peer_tracker_changed' = WatchingPeerTracker
    /\ UNCHANGED <<reqs, next_req_id, sent, decode_tasks, chan, head_rxs, etime>>
    /\ UNCHANGED <<spc, scancelled, subjective_head_height, ongoing_batch,
                   estimated_syncing_window_end, headers_rx, fetch_tasks,
                   try_init_task, header_sub, header_sub_changed, other_peers>>
    /\ UNCHANGED <<store, clock, pvars, dvars>>
    /\ UNCHANGED ivars
    /\ emitted' = <<>>

\* MockP2pHandle::announce_all_peers_disconnected
AnnounceAllPeersDisconnected ==
    /\ PeerTrackerInfo.num_connected_peers > 0
    /\ trusted_peers' = {}
    /\ other_peers' = 0
    /\ peer_tracker_changed' = WatchingPeerTracker
    /\ UNCHANGED <<reqs, next_req_id, sent, decode_tasks, chan, head_rxs, etime>>
    /\ UNCHANGED <<spc, scancelled, subjective_head_height, ongoing_batch,
                   estimated_syncing_window_end, headers_rx, fetch_tasks,
                   try_init_task, header_sub, header_sub_changed>>
    /\ UNCHANGED <<store, clock, pvars, dvars>>
    /\ UNCHANGED ivars
    /\ emitted' = <<>>

\* MockP2pHandle::announce_new_head
AnnounceNewHead ==
    /\ \E h \in Heights : header_sub' = {h}
    /\ header_sub_changed' = TRUE
    /\ UNCHANGED <<spc, scancelled, subjective_head_height, ongoing_batch,
                   estimated_syncing_window_end, headers_rx, fetch_tasks,
                   try_init_task, other_peers, peer_tracker_changed>>
    /\ UNCHANGED <<store, clock, pvars, dvars, evars>>
    /\ UNCHANGED ivars
    /\ emitted' = <<>>

\* The result a caller of Syncer::info holds: none while it awaits, then
\* Ok(SyncingInfo) or Err(SyncerError): WorkerDied when the command could
\* not be sent, ChannelClosedUnexpectedly when its oneshot was dropped.
InfoPending == [tag |-> "Pending"]
InfoOk(info) == [tag |-> "Ok", info |-> info]
InfoWorkerDied == [tag |-> "Err", err |-> "WorkerDied"]
InfoChannelClosed == [tag |-> "Err", err |-> "ChannelClosedUnexpectedly"]

\* Syncer::info: send_command fails with WorkerDied when the receiver is
\* gone; else GetInfo is queued and the caller awaits the oneshot.
SyncerInfoAnswersAfterDeath ==
    /\ Len(info_calls) < MaxInfos
    /\ IF cmd_rx_closed
         THEN /\ info_calls' = Append(info_calls, InfoOk(SyncingInfo))
              /\ UNCHANGED cmd_rx
         ELSE /\ info_calls' = Append(info_calls, InfoPending)
              /\ cmd_rx' = Append(cmd_rx, Len(info_calls) + 1)
    /\ emitted' = <<>>
    /\ UNCHANGED <<spc, scancelled, subjective_head_height, ongoing_batch,
                   estimated_syncing_window_end, headers_rx, fetch_tasks,
                   try_init_task, header_sub, header_sub_changed, other_peers,
                   peer_tracker_changed, cmd_rx_closed>>
    /\ UNCHANGED <<store, clock, pvars, dvars, evars>>
SyncerInfo ==
    /\ Len(info_calls) < MaxInfos
    /\ IF cmd_rx_closed
         THEN /\ info_calls' = Append(info_calls, InfoWorkerDied)
              /\ UNCHANGED cmd_rx
         ELSE /\ info_calls' = Append(info_calls, InfoPending)
              /\ cmd_rx' = Append(cmd_rx, Len(info_calls) + 1)
    /\ emitted' = <<>>
    /\ UNCHANGED <<spc, scancelled, subjective_head_height, ongoing_batch,
                   estimated_syncing_window_end, headers_rx, fetch_tasks,
                   try_init_task, header_sub, header_sub_changed, other_peers,
                   peer_tracker_changed, cmd_rx_closed>>
    /\ UNCHANGED <<store, clock, pvars, dvars, evars>>

\* Both event loops: the branch of `cmd_rx.recv()`; on_cmd answers GetInfo
\* with syncing_info.
SyncerOnCmdTakingBatch ==
    /\ spc \in {"connecting", "connected"}
    /\ cmd_rx # <<>>
    /\ cmd_rx' = Tail(cmd_rx)
    /\ info_calls' = [info_calls EXCEPT ![Head(cmd_rx)] = InfoOk(SyncingInfo)]
    /\ emitted' = <<>>
    /\ ongoing_batch' = {}
    /\ UNCHANGED <<spc, scancelled, subjective_head_height,
                   estimated_syncing_window_end, headers_rx, fetch_tasks,
                   try_init_task, header_sub, header_sub_changed, other_peers,
                   peer_tracker_changed, cmd_rx_closed>>
    /\ UNCHANGED <<store, clock, pvars, dvars, evars>>
SyncerOnCmd ==
    /\ spc \in {"connecting", "connected"}
    /\ cmd_rx # <<>>
    /\ cmd_rx' = Tail(cmd_rx)
    /\ info_calls' = [info_calls EXCEPT ![Head(cmd_rx)] = InfoOk(SyncingInfo)]
    /\ emitted' = <<>>
    /\ UNCHANGED <<spc, scancelled, subjective_head_height, ongoing_batch,
                   estimated_syncing_window_end, headers_rx, fetch_tasks,
                   try_init_task, header_sub, header_sub_changed, other_peers,
                   peer_tracker_changed, cmd_rx_closed>>
    /\ UNCHANGED <<store, clock, pvars, dvars, evars>>

\* The task spawned by Syncer::start ends when `run` returns: the Worker is
\* dropped, cmd_rx with it, and so is the oneshot sender of every command
\* still queued, whose caller gets RecvError (ChannelClosedUnexpectedly).
WorkerDropped ==
    /\ spc = "stopped"
    /\ ~cmd_rx_closed
    /\ cmd_rx_closed' = TRUE
    /\ cmd_rx' = <<>>
    /\ info_calls' = [id \in DOMAIN info_calls |->
                        IF info_calls[id] = InfoPending THEN InfoChannelClosed
                        ELSE info_calls[id]]
    /\ emitted' = <<>>
    /\ UNCHANGED <<spc, scancelled, subjective_head_height, ongoing_batch,
                   estimated_syncing_window_end, headers_rx, fetch_tasks,
                   try_init_task, header_sub, header_sub_changed, other_peers,
                   peer_tracker_changed>>
    /\ UNCHANGED <<store, clock, pvars, dvars, evars>>

----------------------------------------------------------------------------
\* IndexedDbStore.

\* The headers offered to the store: a height and a hash each.
Hashes == 1..(MaxHeight + 1)
Headers == [height : Heights, hash : Hashes]

\* StoreError, and the result of append_single_unchecked.
HeightExists(height) == [tag |-> "HeightExists", height |-> height]
NonContinuousAppend(head, height) ==
    [tag |-> "NonContinuousAppend", head |-> head, height |-> height]
HashExists(hash) == [tag |-> "HashExists", hash |-> hash]
AppendOk == [tag |-> "Ok"]

\* get_head_height().unwrap_or(0): get_head reads the entry with the
\* highest key, the one added last.
HeadHeightOrZero(db) == IF db = <<>> THEN 0 ELSE db[Len(db)].height

\* The counts of the unique indexes "height" and "hash".
HeightCount(db, height) == Cardinality({i \in DOMAIN db : db[i].height = height})
HashCount(db, hash) == Cardinality({i \in DOMAIN db : db[i].hash = hash})

\* append_single_unchecked: the checks in the order of the code.
AppendResultIgnoringHash(db, header) ==
    LET head_height == HeadHeightOrZero(db)
    IN IF head_height > 0 /\ header.height <= head_height
         THEN HeightExists(header.height)
       ELSE IF head_height + 1 # header.height
         THEN NonContinuousAppend(head_height, header.height)
       ELSE IF HeightCount(db, header.height) # 0
         THEN HeightExists(header.height)
       ELSE AppendOk
AppendResult(db, header) ==
    LET head_height == HeadHeightOrZero(db)
    IN IF head_height > 0 /\ header.height <= head_height
         THEN HeightExists(header.height)
       ELSE IF head_height + 1 # header.height
         THEN NonContinuousAppend(head_height, header.height)
       ELSE IF HeightCount(db, header.height) # 0
         THEN HeightExists(header.height)
       ELSE IF HashCount(db, header.hash) # 0
         THEN HashExists(header.hash)
       ELSE AppendOk

\* IndexedDbStore::new on a fresh database, before any call.
NoAppend == [header |-> [height |-> 0, hash |-> 0], result |-> AppendOk]
IndexedDbEmpty ==
    /\ idb = <<>>
    /\ idb_last = NoAppend

\* append_single_unchecked(header): the entry is added when every check
\* has passed.
AppendSingleUnchecked ==
    /\ \E header \in Headers :
         LET result == AppendResult(idb, header)
         IN /\ idb_last' = [header |-> header, result |-> result]
            /\ idb' = IF result = AppendOk
                        THEN Append(idb, [height |-> header.height,
                                          hash |-> header.hash])
                        ELSE idb
    /\ UNCHANGED <<store, clock, pvars, evars, svars>>

----------------------------------------------------------------------------
\* Specifications.

ExchangeClientIdle ==
    /\ reqs = << >>
    /\ next_req_id = 1
    /\ sent = << >>
    /\ decode_tasks = {}
    /\ head_rxs = <<>>
    /\ etime = 0

ExchangeIdle ==
    /\ ExchangeClientIdle
    /\ chan = [c \in 0..NumPeers |-> {}]

PrunerIdle ==
    /\ ppc = "tick"
    /\ pcancelled = FALSE
    /\ pruning_window_end = 0
    /\ tail_height = {}
    /\ cids = <<>>
    /\ blockstore = AllCids
    /\ pevents = <<>>
    /\ passRemoved = {}
    /\ passInserted = FALSE
    /\ pruned = {}

SyncerWorkerIdle ==
    /\ spc = "run"
    /\ scancelled = FALSE
    /\ emitted = <<>>
    /\ cmd_rx = <<>>
    /\ cmd_rx_closed = FALSE
    /\ info_calls = <<>>
    /\ subjective_head_height = {}
    /\ ongoing_batch = {}
    /\ estimated_syncing_window_end = {}
    /\ headers_rx = <<>>
    /\ fetch_tasks = EmptyBag
    /\ try_init_task = NoTryInit
    /\ header_sub = {}
    /\ header_sub_changed = FALSE
    /\ peer_tracker_changed = FALSE

SyncerIdle ==
    /\ SyncerWorkerIdle
    /\ other_peers = 0

ContiguousStores == {{}} \cup {lo..hi : lo \in Heights, hi \in Heights}

PrunerInit ==
    /\ store \in ContiguousStores
    /\ clock = PRUNING_WINDOW - 1
    /\ PrunerIdle
    /\ IndexedDbEmpty
    /\ trusted_peers = {}
    /\ ExchangeIdle
    /\ SyncerIdle

PrunerNext ==
    \/ PrunerStep
    \/ PrunerStop
    \/ StoreInsert
    \/ Tick

PrunerSpec == PrunerInit /\ [][PrunerNext]_vars

PrunerFairSpec == PrunerSpec /\ WF_vars(PrunerStep)

\* run's select!: the cancellation branch is ready whenever the token is
\* cancelled, and a ready branch is not passed over forever.
PrunerObservesCancel == PrunerSleep /\ ppc' = "stopped"

PrunerStopFairSpec == PrunerFairSpec /\ SF_vars(PrunerObservesCancel)

HeadInit ==
    /\ store = {}
    /\ clock = PRUNING_WINDOW - 1
    /\ PrunerIdle
    /\ IndexedDbEmpty
    /\ \E k \in 0..NumPeers : trusted_peers = 1..k
    /\ ExchangeIdle
    /\ SyncerIdle

HeadNext ==
    \/ OnSendRequest
    \/ OnResponseReceived
    \/ DecodeTask
    \/ OnFailure
    \/ Poll
    \/ ExchangeTick
    \/ HeadElection

HeadSpec == HeadInit /\ [][HeadNext]_vars

\* The exchange client with a few connected peers, trusted or not, serving
\* one request of any shape.
ExchangeInit ==
    /\ store = {}
    /\ clock = PRUNING_WINDOW - 1
    /\ PrunerIdle
    /\ IndexedDbEmpty
    /\ \E k \in 0..(MaxConnected + 1) : trusted_peers = 1..k
    /\ ExchangeIdle
    /\ SyncerWorkerIdle
    /\ other_peers \in 0..MaxConnected

ExchangeNext ==
    \/ OnSendAnyRequest
    \/ OnResponseReceived
    \/ DecodeTask
    \/ OnFailure
    \/ Poll
    \/ ExchangeTick
    \/ HeadElection

ExchangeSpec == ExchangeInit /\ [][ExchangeNext]_vars

\* The swarm keeps calling poll, the clock advances, and the spawned tasks run.
ExchangeFairSpec ==
    /\ ExchangeSpec
    /\ WF_vars(Poll)
    /\ WF_vars(ExchangeTick)
    /\ WF_vars(DecodeTask)
    /\ WF_vars(HeadElection)

\* The fan-out of a head request with up to MaxTrusted trusted peers
\* connected; the requests end by transport failures.
FanoutInit ==
    /\ store = {}
    /\ clock = PRUNING_WINDOW - 1
    /\ PrunerIdle
    /\ IndexedDbEmpty
    /\ \E k \in 0..MaxTrusted : trusted_peers = 1..k
    /\ ExchangeClientIdle
    /\ chan = [c \in 0..MaxTrusted |-> {}]
    /\ SyncerWorkerIdle
    /\ other_peers \in 0..MaxConnected

FanoutNext ==
    \/ OnSendRequest
    \/ OnFailure
    \/ HeadElection

FanoutSpec == FanoutInit /\ [][FanoutNext]_vars

\* The syncer: the worker starts on an empty store or on one that a previous
\* run filled; the headers at heights 1 and 2 are outside the syncing window.
Init ==
    /\ store \in {{}, 1..2}
    /\ clock = SYNCING_WINDOW + 2
    /\ PrunerIdle
    /\ IndexedDbEmpty
    /\ trusted_peers = {}
    /\ ExchangeIdle
    /\ SyncerIdle

Next ==
    \/ SyncerRunLoop
    \/ TryInitWaitConnectedTrusted
    \/ TryInitGetHeadHeader
    \/ TryInitInsert
    \/ TryInitHeaderSub
    \/ SyncerOnTryInitResult
    \/ SyncerOnCancelled
    \/ SyncerOnPeerTrackerChanged
    \/ SyncerOnHeaderSubMessage
    \/ SyncerOnFetchNextBatchResult
    \/ FetchTaskDone
    \/ SyncerStop
    \/ AnnouncePeerConnected
    \/ AnnounceTrustedPeerConnected
    \/ AnnounceAllPeersDisconnected
    \/ AnnounceNewHead

Spec == Init /\ [][Next]_vars

\* The syncer with callers of Syncer::info, a trusted peer that connects
\* and stays, and Syncer::stop.
InfoNext ==
    \/ SyncerRunLoop
    \/ TryInitWaitConnectedTrusted
    \/ TryInitGetHeadHeader
    \/ TryInitInsert
    \/ TryInitHeaderSub
    \/ SyncerOnTryInitResult
    \/ SyncerOnCancelled
    \/ SyncerOnHeaderSubMessage
    \/ SyncerOnFetchNextBatchResult
    \/ FetchTaskDone
    \/ SyncerStop
    \/ AnnounceTrustedPeerConnected
    \/ SyncerInfo
    \/ SyncerOnCmd
    \/ WorkerDropped

InfoSpec == Init /\ [][InfoNext]_vars

\* The syncer with a trusted peer that connects and stays, heads announced
\* by header-sub, and every range request answered with its headers.
SyncNext ==
    \/ SyncerRunLoop
    \/ TryInitWaitConnectedTrusted
    \/ TryInitGetHeadHeader
    \/ TryInitInsert
    \/ TryInitHeaderSub
    \/ SyncerOnTryInitResult
    \/ SyncerOnHeaderSubMessage
    \/ SyncerOnFetchNextBatchResult
    \/ FetchTaskAnswered
    \/ AnnounceTrustedPeerConnected
    \/ AnnounceNewHead

SyncSpec == Init /\ [][SyncNext]_vars

\* The spawned fetch task runs to its end, and the connected loop takes the
\* ready branches of its select!.
SyncFairSpec ==
    /\ SyncSpec
    /\ WF_vars(FetchTaskAnswered)
    /\ WF_vars(SyncerOnFetchNextBatchResult)
    /\ WF_vars(SyncerOnHeaderSubMessage)

\* The network's head advances by one: header-sub announces the height
\* above the subjective head.
AnnounceNextHead ==
    /\ AnnounceNewHead
    /\ subjective_head_height # {}
    /\ header_sub' = {SyncingInfo.subjective_head + 1}

\* The node: the syncer, with a trusted peer that connects and stays, the
\* network's head advancing and every request answered, and the pruner,
\* both working on the shared store while time passes.
NodeNext ==
    \/ SyncerRunLoop
    \/ TryInitWaitConnectedTrusted
    \/ TryInitGetHeadHeader
    \/ TryInitInsert
    \/ TryInitHeaderSub
    \/ SyncerOnTryInitResult
    \/ SyncerOnHeaderSubMessage
    \/ SyncerOnFetchNextBatchResult
    \/ FetchTaskAnswered
    \/ AnnounceTrustedPeerConnected
    \/ AnnounceNextHead
    \/ PrunerStep
    \/ Tick

NodeSpec == Init /\ [][NodeNext]_vars

\* get_head_header answers the head request with a head header.
TryInitHeadAnswered == TryInitGetHeadHeader /\ try_init_task'.pc = "insert"

\* The syncer finding its head: trusted peers connect and disconnect, and
\* head requests fail or are answered with any head.
ReconnectNext ==
    \/ SyncerRunLoop
    \/ TryInitWaitConnectedTrusted
    \/ TryInitGetHeadHeader
    \/ TryInitInsert
    \/ TryInitHeaderSub
    \/ SyncerOnTryInitResult
    \/ SyncerOnPeerTrackerChanged
    \/ AnnounceTrustedPeerConnected
    \/ AnnounceAllPeersDisconnected

ReconnectSpec == Init /\ [][ReconnectNext]_vars

\* The worker's loops and the try_init task keep running (spawn_try_init
\* retries without bound), and head requests do not fail forever.
ReconnectFairSpec ==
    /\ ReconnectSpec
    /\ WF_vars(SyncerRunLoop)
    /\ WF_vars(TryInitWaitConnectedTrusted)
    /\ WF_vars(TryInitGetHeadHeader)
    /\ SF_vars(TryInitHeadAnswered)
    /\ WF_vars(TryInitInsert)
    /\ WF_vars(TryInitHeaderSub)
    /\ WF_vars(SyncerOnTryInitResult)
    /\ WF_vars(SyncerOnPeerTrackerChanged)

\* A fresh IndexedDbStore and any sequence of appends.
IndexedDbNext == AppendSingleUnchecked

IndexedDbSpec == Init /\ [][IndexedDbNext]_vars

InfoFairSpec ==
    /\ InfoSpec
    /\ WF_vars(SyncerRunLoop)
    /\ WF_vars(SyncerOnCmd)
    /\ WF_vars(WorkerDropped)
    /\ WF_vars(SyncerOnCancelled)

----------------------------------------------------------------------------
\* Claims about the pruner (checked under PrunerSpec / PrunerFairSpec).

\* The headers of the store that are outside the window of the running pass.
OutsideWindow(S) == {h \in S : HeaderTime(h) < pruning_window_end}

\* The running pass has nothing more to remove: it found an empty store or a
\* tail inside the window.
PassSettled == ppc \in {"loop_end", "sleep"}

\* C4: every pruner pass terminates: once the current tail is found inside
\* the pruning window, the next step of the pass returns, and the worker
\* reaches its sleep.
C4_PassReturnsInsideWindow ==
    [][(ppc = "loop_end" /\ ppc' # ppc) => ppc' = "sleep"]_vars

C6_RemovesExactlyOldTail ==
    [][/\ ~(store \subseteq store') =>
            \E h \in store : /\ store' = store \ {h}
                             /\ h = Min(store)
                             /\ HeaderTime(h) < pruning_window_end
       /\ (PassSettled' /\ ~passInserted') =>
            /\ passRemoved' = OutsideWindow(store' \cup passRemoved')
            /\ \A h \in passRemoved' : \A g \in store' : h < g
      ]_vars

\* C6 witness: an undisturbed pass removed a non-empty prefix and stopped at
\* a tail inside the window.
C6_Witness ==
    /\ ppc = "loop_end"
    /\ ~passInserted
    /\ Cardinality(passRemoved) >= 2
    /\ store # {}

\* The CIDs of the sampling metadata of the header at height h.
CidSet(h) == {CidsOf(h)[i] : i \in DOMAIN CidsOf(h)}

\* The step is a failed removal of a CID from the blockstore.
CidRemovalFails == ppc = "remove_cids" /\ cids # <<>> /\ ppc' = "failed"

CallsRemoveTail == ppc = "remove_cids" /\ cids = <<>> /\ ppc' # ppc

\* The heights the ranges view of the store covers.
CoveredByRanges(s) == UNION {r.lo..r.hi : r \in StoredHeaderRanges(s)}

PassFails == ppc # "failed" /\ ppc' = "failed"
PassError == IF ppc = "remove_cids" /\ cids # <<>> THEN "Blockstore" ELSE "Store"

\* C35: a pass that returns an error makes the worker publish one
\* FatalPrunerError carrying that error, the only event it ever publishes;
\* the failed worker runs no further step of any pass, removes nothing and
\* publishes nothing more; and a worker that has not failed, a cancelled
\* one included, has published no event.
C35_OneFatalEventThenExit ==
    [][/\ PassFails => pevents' = <<FatalPrunerError(PassError)>>
       /\ ppc = "failed" =>
            /\ ppc' = "failed"
            /\ pevents' = pevents
            /\ store \subseteq store'
            /\ UNCHANGED <<tail_height, cids, blockstore, passRemoved,
                           pruning_window_end>>
       /\ ppc' # "failed" => pevents' = <<>>]_vars

\* The worker failed on the blockstore, published the one event, and was
\* stopped and left behind by the clock and an insertion afterwards.
C35_Witness ==
    /\ ppc = "failed"
    /\ pevents = <<FatalPrunerError("Blockstore")>>
    /\ pcancelled
    /\ passInserted
    /\ clock > pruning_window_end + PRUNING_WINDOW

\* C36: once the pruner's token is cancelled the worker eventually exits,
\* and a worker that has observed the cancellation starts no pass and takes
\* no further step.
C36_StopLeadsToExit ==
    /\ pcancelled ~> (ppc \in {"stopped", "failed"})
    /\ [][ppc = "stopped" =>
            /\ ppc' = "stopped"
            /\ store \subseteq store'
            /\ UNCHANGED <<blockstore, pevents, passRemoved>>]_vars

----------------------------------------------------------------------------
\* Claims about the head election (checked under HeadSpec).

\* The header delivered by the per-peer request `id`, if it delivered one.
HeadReplyOf(id) ==
    {v.headers[1] : v \in {w \in chan[id] : w.tag = "Ok" /\ w.headers # <<>>}}

\* The headers of the surviving replies, and the number of peers that
\* returned a header.
ValidReplies == UNION {HeadReplyOf(head_rxs[i]) : i \in 1..Len(head_rxs)}
Votes(h) == Cardinality({i \in 1..Len(head_rxs) : h \in HeadReplyOf(head_rxs[i])})
Quorate == {h \in ValidReplies : Votes(h) >= 2}

\* The caller of a head request that was fanned out has its answer.
CallerAnswered == head_rxs # <<>> /\ chan[0] # {}

C8_NoQuorumMaxHeight ==
    (CallerAnswered /\ ValidReplies # {} /\ Quorate = {}) =>
        \E h \in ValidReplies :
            /\ chan[0] = {Ok(<<h>>)}
            /\ \A g \in ValidReplies : g.height <= h.height

\* C8 witness: no quorum, replies of different heights, the higher one
\* delivered.
C8_Witness ==
    /\ CallerAnswered
    /\ Quorate = {}
    /\ \E h \in ValidReplies : \E g \in ValidReplies :
         /\ g.height < h.height
         /\ chan[0] = {Ok(<<h>>)}

\* C9: when no per-peer reply survives (each is a failure, a timeout or
\* rejected by decode_and_verify_responses), the caller receives the error
\* HeaderNotFound and no header.
C9_NoSurvivorHeaderNotFound ==
    (CallerAnswered /\ ValidReplies = {}) => chan[0] = {Err("HeaderNotFound")}

\* C9 witness: the caller was answered after one peer failed, one timed out
\* and one sent an invalid header.
C9_Witness ==
    /\ CallerAnswered
    /\ ValidReplies = {}
    /\ \E i \in DOMAIN head_rxs : chan[head_rxs[i]] = {Err("OutboundFailure(ConnectionClosed)")}
    /\ \E i \in DOMAIN head_rxs : chan[head_rxs[i]] = {Err("OutboundFailure(Timeout)")}
    /\ \E i \in DOMAIN head_rxs : chan[head_rxs[i]] = {Err("InvalidResponse")}

\* The per-peer request `id` has completed: it is neither pending nor being
\* decoded, and its channel holds the result.
RequestCompleted(id) ==
    /\ id \notin DOMAIN reqs
    /\ \A t \in decode_tasks : t.state.respond_to # id
    /\ chan[id] # {}

\* C10: the caller of a head request is not answered until every per-peer
\* request has completed with a response, a failure or a timeout.
C10_AnsweredAfterAllCompleted ==
    CallerAnswered => \A i \in DOMAIN head_rxs : RequestCompleted(head_rxs[i])

\* C10 witness: the caller was answered with a header that had its quorum
\* before the last peer's request ended in a timeout.
C10_Witness ==
    /\ CallerAnswered
    /\ Quorate # {}
    /\ \E i \in DOMAIN head_rxs : chan[head_rxs[i]] = {Err("OutboundFailure(Timeout)")}
    /\ etime >= TIMEOUT

----------------------------------------------------------------------------
\* Claims about the syncer (checked under Spec).

\* C1: at most one syncer batch is outstanding: the fetch tasks that are
\* running un-cancelled and the results the worker has not yet consumed
\* number at most one, so a fetch is never started next to either.
C1_AtMostOneOutstandingBatch ==
    BagCardinality(fetch_tasks) + Len(headers_rx) <= 1

\* C2: subjective_head is monotone non-decreasing: once set it stays set,
\* and no step lowers it.
C2_SubjectiveHeadMonotone ==
    [][\A old \in subjective_head_height :
          \E new \in subjective_head_height' : new >= old]_vars

\* C2 witness: the worker has just been given, by try_init after a
\* reconnection, a network head below its subjective head, and has kept the
\* subjective head.
C2_Witness ==
    /\ spc = "connected"
    /\ \E i \in DOMAIN emitted : \E s \in subjective_head_height :
          /\ emitted[i].type = "FetchingHeadHeaderFinished"
          /\ emitted[i].to_height < s

\* C3: in the Connecting and the Connected phase every stored height lies
\* in [1, subjective_head], subjective_head being the value reported in
\* SyncingInfo.
C3_StoredWithinSubjectiveHead ==
    spc \in {"connecting", "connected"} =>
        \A h \in store : 1 <= h /\ h <= SyncingInfo.subjective_head

----------------------------------------------------------------------------
\* Claims about requests by height and by hash (checked under ExchangeSpec).

\* The request that was sent to a peer for the caller, when it is not a
\* head request: the one request of the behaviour, under request id 1.
RangeRequestSent == sent # << >> /\ ~IsHeadRequest(sent[1].request)

\* The header lists delivered to the caller of such a request.
RangeDelivered ==
    IF RangeRequestSent THEN {v.headers : v \in {w \in chan[0] : w.tag = "Ok"}} ELSE {}

\* C11: every header list delivered to the caller of a non-head request is
\* sorted ascending by height; for a request by hash it has length 1 and its
\* header has the requested hash; for a request Origin(start) its i-th header
\* (from 0) is at height start + i, so it has no gap and no duplicate.
C11_DeliveredSortedAndContiguous ==
    \A R \in RangeDelivered :
        LET request == sent[1].request
        IN /\ \A i \in 1..Len(R) : \A j \in 1..Len(R) :
                 i < j => R[i].height < R[j].height
           /\ (request.data[1] = "Hash") =>
                 (Len(R) = 1 /\ R[1].hash = request.data[2])
           /\ (request.data[1] = "Origin") =>
                 \A i \in 1..Len(R) : R[i].height = request.data[2] + (i - 1)

\* A list of more than one header was delivered for a request by height.
C11_Witness ==
    \E R \in RangeDelivered : Len(R) > 1 /\ sent[1].request.data[1] = "Origin"

\* C12: a reply accepted for a request Origin(start), start > 0, of amount n
\* has exactly n headers; a reply of fewer headers is rejected.
C12_AcceptedReplyHasRequestedAmount ==
    \A R \in RangeDelivered :
        LET request == sent[1].request
        IN (request.data[1] = "Origin") => Len(R) = request.amount

\* The reply of a decoding task is empty or has more messages than the
\* request's amount.
BadShape(t) ==
    t.responses = <<>> \/ Len(t.responses) > t.state.request.amount

\* C13: a reply that is empty or longer than the request's amount is rejected
\* as a whole: when its decoding ends the responder holds InvalidResponse (so
\* no header of the reply is delivered), and no pending request answers to
\* that responder any more.
C13_BadShapeRejected ==
    [][\A t \in decode_tasks :
          (t \notin decode_tasks' /\ BadShape(t)) =>
              /\ chan'[t.state.respond_to] = {Err("InvalidResponse")}
              /\ \A id \in DOMAIN reqs' :
                    reqs'[id].respond_to # t.state.respond_to]_vars

\* A reply longer than the amount is being decoded, and its request has
\* left the pending map.
C13_Witness ==
    \E t \in decode_tasks :
        /\ Len(t.responses) > t.state.request.amount
        /\ reqs = << >>

\* The malformed requests.
Malformed(request) ==
    \/ request.amount = 0
    \/ request.data = <<"Origin", 0>> /\ request.amount # 1
    \/ request.data[1] = "Hash" /\ request.data[3] # HASH_SIZE
    \/ request.data[1] = "Hash" /\ request.amount # 1
    \/ request.data = <<"None">>

\* C14: on_send_request of a malformed request puts InvalidRequest on the
\* responder in the same step, sends nothing and leaves the pending map as
\* it was.
C14_MalformedRejected ==
    [][\A request \in AllRequests :
          (Malformed(request) /\ HandleSendRequest(request)) =>
              /\ chan'[0] = {Err("InvalidRequest")}
              /\ sent' = sent
              /\ reqs' = reqs]_vars

\* The caller was answered InvalidRequest and nothing was sent.
C14_Witness ==
    chan[0] = {Err("InvalidRequest")} /\ sent = << >> /\ reqs = << >>

\* C15: right after a timeout sweep no pending request has been waiting for
\* 10 s or more, and every request the sweep removed has
\* OutboundFailure(Timeout) on its responder.
C15_SweepLeavesNoExpired ==
    [][Poll =>
          /\ \A id \in DOMAIN reqs' : etime' - reqs'[id].started_at < 10
          /\ \A id \in (DOMAIN reqs) \ (DOMAIN reqs') :
                chan'[reqs[id].respond_to] = {Err("OutboundFailure(Timeout)")}]_vars

\* A sweep has timed out the one request sent for the caller.
C15_Witness ==
    /\ RangeRequestSent
    /\ reqs = << >>
    /\ chan[0] = {Err("OutboundFailure(Timeout)")}

----------------------------------------------------------------------------
\* Claims about the life of a request (checked under ExchangeFairSpec and
\* ExchangeSpec).

\* C16: every request that on_send_request passed on to a peer gets an
\* outcome on the caller's responder, as long as poll keeps being invoked;
\* and an outcome, once on a responder, is never replaced by another: a
\* response or a failure that arrives for an id no longer pending changes
\* nothing.
C16_ExactlyOneOutcome ==
    /\ [][\A c \in DOMAIN chan : chan[c] # {} => chan'[c] = chan[c]]_vars
    /\ (sent # << >>) ~> (chan[0] # {})

\* The caller has its outcome, and nothing is pending or being decoded, so
\* whatever arrives now arrives late.
C16_Witness ==
    /\ sent # << >>
    /\ reqs = << >>
    /\ decode_tasks = {}
    /\ chan[0] # {}
    /\ Cardinality(chan[0]) = 1

\* The responder of the request sent under `id`: its own oneshot channel for
\* a request of the head fan-out, the caller's responder otherwise.
RespondToOf(id) == IF IsHeadRequest(sent[id].request) THEN id ELSE 0

\* The request sent under `id` was answered (its reply is being decoded or
\* its result is on the responder), has failed or has timed out (the error
\* is on the responder).
Settled(id) ==
    \/ chan[RespondToOf(id)] # {}
    \/ \E t \in decode_tasks : t.state.respond_to = RespondToOf(id)

\* C17: the pending map holds exactly the ids that were sent to a peer and
\* are not yet answered, failed or timed out; every id was handed out once,
\* in sequence, so no id has two entries.
C17_PendingAreSentAndUnsettled ==
    /\ DOMAIN reqs = {id \in DOMAIN sent : ~Settled(id)}
    /\ DOMAIN sent = 1..(next_req_id - 1)
    /\ \A id \in DOMAIN reqs : reqs[id].request = sent[id].request
    /\ \A id \in DOMAIN reqs : reqs[id].respond_to = RespondToOf(id)

\* Of two requests sent, one is still pending and the other has left the map.
C17_Witness ==
    \E id1 \in DOMAIN sent : \E id2 \in DOMAIN sent :
        id1 \in DOMAIN reqs /\ id2 \notin DOMAIN reqs /\ Settled(id2)

----------------------------------------------------------------------------
\* Claims about the choice of peers (checked under ExchangeSpec and
\* FanoutSpec).

\* No peer can serve the request: no connected trusted peer for a head
\* request, no connected peer at all for the others.
NoSuitablePeer(request) ==
    IF IsHeadRequest(request) THEN trusted_peers = {} ELSE ConnectedPeers = {}

\* C18: on_send_request of a well-formed request that no peer can serve puts
\* NoConnectedPeers on the responder, sends nothing and records no pending
\* entry.
C18_NoPeerNoConnectedPeers ==
    [][\A request \in AllRequests :
          (/\ IsValidRequest(request)
           /\ NoSuitablePeer(request)
           /\ HandleSendRequest(request)) =>
              /\ chan'[0] = {Err("NoConnectedPeers")}
              /\ sent' = sent
              /\ reqs' = reqs]_vars

\* A head request was refused while a peer that is not trusted is connected.
C18_Witness ==
    /\ chan[0] = {Err("NoConnectedPeers")}
    /\ trusted_peers = {}
    /\ other_peers > 0
    /\ sent = << >>

\* The peers the requests of the head fan-out were sent to.
HeadPeers == {sent[id].peer : id \in DOMAIN sent}

\* C19: the requests of a head fan-out go to connected trusted peers only,
\* one request per chosen peer and at most 10 of them, exactly 10 when more
\* than 10 trusted peers are connected and one per trusted peer otherwise;
\* each request sent has its own pending entry until it completes.
C19_HeadFanoutTrustedAndCapped ==
    (head_rxs # <<>>) =>
        /\ HeadPeers \subseteq trusted_peers
        /\ Cardinality(HeadPeers) = Cardinality(DOMAIN sent)
        /\ Cardinality(DOMAIN sent) <= 10
        /\ Cardinality(DOMAIN sent) =
              (IF Cardinality(trusted_peers) > 10 THEN 10
                                                  ELSE Cardinality(trusted_peers))
        /\ \A id \in DOMAIN sent : IsHeadRequest(sent[id].request)
        /\ \A id \in DOMAIN sent : id \in DOMAIN reqs \/ chan[id] # {}

\* More than 10 trusted peers and a peer that is not trusted are connected,
\* and the 10 requests sent are all pending.
C19_Witness ==
    /\ Cardinality(trusted_peers) > 10
    /\ other_peers > 0
    /\ Cardinality(DOMAIN sent) = 10
    /\ DOMAIN reqs = DOMAIN sent

----------------------------------------------------------------------------
\* Claim about status codes (checked under ExchangeSpec).

\* The statuses other than OK among the messages of a reply.
NonOkStatuses(responses) ==
    {responses[i].status_code : i \in DOMAIN responses} \ {"OK"}

\* The reply has no defect other than messages of status NotFound: it is
\* not longer than the amount and its OK messages carry valid headers.
OnlyNotFoundDefect(t) ==
    /\ NonOkStatuses(t.responses) = {"NotFound"}
    /\ Len(t.responses) <= t.state.request.amount
    /\ \A i \in DOMAIN t.responses :
          t.responses[i].status_code = "OK" => t.responses[i].valid

\* C20: when a message of a reply has a status other than OK, the decoding
\* of the reply ends with an error on its responder and delivers no header:
\* InvalidResponse when the statuses are Invalid or unknown, HeaderNotFound
\* when NotFound is the reply's only defect.  The head election answers with
\* a header that some per-peer responder holds as Ok, so such a reply, whose
\* responder holds the error, has no part in the vote.
C20_NonOkStatusDeliversNoHeader ==
    /\ [][\A t \in decode_tasks :
             (t \notin decode_tasks' /\ NonOkStatuses(t.responses) # {}) =>
                 /\ chan'[t.state.respond_to] # {}
                 /\ \A v \in chan'[t.state.respond_to] :
                       /\ v.tag = "Err"
                       /\ v.headers = <<>>
                       /\ v.err \in {"HeaderNotFound", "InvalidResponse"}
                       /\ ("NotFound" \notin NonOkStatuses(t.responses))
                             => v.err = "InvalidResponse"
                       /\ OnlyNotFoundDefect(t) => v.err = "HeaderNotFound"]_vars
    /\ [][(head_rxs # <<>> /\ chan[0] = {} /\ chan'[0] # {}) =>
             \A v \in chan'[0] :
                 v.tag = "Ok" =>
                     \E i \in DOMAIN head_rxs : chan[head_rxs[i]] = {Ok(v.headers)}]_vars

\* A head election answered with a header while the reply of one of its
\* peers, of status NotFound, left HeaderNotFound on that peer's responder.
C20_Witness ==
    /\ head_rxs # <<>>
    /\ \E v \in chan[0] : v.tag = "Ok"
    /\ \E i \in DOMAIN head_rxs : chan[head_rxs[i]] = {Err("HeaderNotFound")}

----------------------------------------------------------------------------
\* Claims about the syncer's batches and phases (checked under Spec).

\* The step is the branch of `headers_rx.recv()`: the worker takes the
\* result at the head of the channel.
ConsumesResult ==
    spc = "connected" /\ headers_rx # <<>> /\ headers_rx' = Tail(headers_rx)

\* C21: a result that on_fetch_next_batch_result applies under the ongoing
\* batch was produced by the task fetching that batch: its range is the
\* range of the ongoing batch.
C21_ResultBelongsToOngoingBatch ==
    [][(ConsumesResult /\ ongoing_batch # {}) =>
          \A b \in ongoing_batch :
              Head(headers_rx).lo = b.lo /\ Head(headers_rx).hi = b.hi]_vars

\* The requests a step issues: the head request of try_init
\* (p2p.get_head_header) and the range request of a spawned fetch task.
IssuesHeadRequest ==
    try_init_task.pc = "wait_connected_trusted" /\ try_init_task'.pc = "get_head_header"
IssuesRangeRequest ==
    \E t \in BagToSet(fetch_tasks') :
        t.tracked /\ CopiesIn(t, fetch_tasks') > CopiesIn(t, fetch_tasks)

\* C22: in Connecting the worker and its try_init task issue no range
\* request at all, and no head request while no trusted peer is connected
\* (whatever the number of other peers); try_init goes from waiting for a
\* trusted peer to nothing but the head request, so the head request is the
\* first request issued after a trusted peer connected.
C22_ConnectingWaitsForTrustedPeer ==
    [][/\ (spc = "connecting" /\ spc' = "connecting") => ~IssuesRangeRequest
       /\ IssuesHeadRequest => trusted_peers # {}
       /\ (try_init_task.pc = "wait_connected_trusted"
             /\ try_init_task' # try_init_task /\ ~scancelled')
                => IssuesHeadRequest]_vars

\* try_init has issued the head request, a trusted peer being connected,
\* and no range request is running.
C22_Witness ==
    /\ spc = "connecting"
    /\ try_init_task.pc = "get_head_header"
    /\ trusted_peers # {}
    /\ fetch_tasks = EmptyBag

\* The step is the branch of `peer_tracker_info_watcher.changed()` taken
\* with no peer connected (the branch of the cancellation token ends in
\* "stopped").
SeesZeroPeers ==
    /\ spc = "connected" /\ spc' # "stopped"
    /\ peer_tracker_changed /\ ~peer_tracker_changed'
    /\ PeerTrackerInfo.num_connected_peers = 0

\* Outside Connected: at the top of `run` or in connecting_event_loop.
NotConnected == spc \in {"run", "connecting"}

\* C23: on a report of zero connected peers the Connected syncer clears and
\* cancels the ongoing batch and goes back to Connecting; ongoing_batch is
\* empty whenever the syncer is not Connected, and no step that ends outside
\* Connected issues a range request (the next one comes with the result of
\* try_init).
C23_ZeroPeersBackToConnecting ==
    /\ NotConnected => ongoing_batch = {}
    /\ [][/\ SeesZeroPeers =>
               /\ spc' = "run"
               /\ ongoing_batch' = {}
               /\ \A t \in BagToSet(fetch_tasks') : ~t.tracked
          /\ NotConnected' => (ongoing_batch' = {} /\ ~IssuesRangeRequest)
          /\ (NotConnected /\ IssuesRangeRequest) =>
                (try_init_task.pc = "done" /\ spc' = "connected")]_vars

\* The syncer is back in Connecting with no peer connected, after it had
\* been Connected (the subjective head is set) with headers still missing
\* below the head: the batch is cleared and its task is gone.
C23_Witness ==
    /\ spc = "connecting"
    /\ PeerTrackerInfo.num_connected_peers = 0
    /\ ongoing_batch = {}
    /\ fetch_tasks = EmptyBag
    /\ \E head \in subjective_head_height :
          \E h \in 1..head : h \notin store /\ InSyncingWindow(h)

\* The step is the branch of `header_sub_watcher.changed()`.
SeesHeaderSub ==
    spc = "connected" /\ header_sub_changed /\ ~header_sub_changed'

\* The event is among those the step just taken has sent.
Emitted(type, from_height, to_height) ==
    \E i \in DOMAIN emitted : emitted[i] = Event(type, from_height, to_height)

\* C24: a header-sub update of height h, handled with subjective_head set,
\* makes subjective_head max(current, h) and inserts the head if and only
\* if h is the store's head height plus one; a head further ahead is not
\* inserted, and a batch scheduled by the same step ends at the subjective
\* head and contains h when h is that head.
C24_HeaderSubUpdate ==
    [][(SeesHeaderSub /\ subjective_head_height # {}) =>
         \A h \in header_sub : \A current \in subjective_head_height :
            LET adjacent == store # {} /\ Max(store) + 1 = h
                head == IF h > current THEN h ELSE current
            IN /\ subjective_head_height' = {head}
               /\ store' = IF adjacent THEN store \cup {h} ELSE store
               /\ adjacent <=> Emitted("AddedHeaderFromHeaderSub", h, h)'
               /\ (store # {} /\ h > Max(store) + 1 /\ IssuesRangeRequest) =>
                     \A b \in ongoing_batch' :
                        b.hi = head /\ (h = head => b.lo <= h)]_vars

\* The worker has just inserted a head announced by header-sub: it is the
\* head of the store, on top of the former head.
C24_Witness ==
    /\ spc = "connected"
    /\ \E h \in store :
          /\ Emitted("AddedHeaderFromHeaderSub", h, h)
          /\ h = Max(store) /\ (h - 1) \in store
          /\ subjective_head_height = {h}

\* The batches the step just taken has scheduled: fetch_next_batch sends
\* FetchingHeadersStarted when, and only when, it spawns the fetch task.
Scheduled ==
    {Batch(emitted[i].from_height, emitted[i].to_height) :
        i \in {j \in DOMAIN emitted : emitted[j].type = "FetchingHeadersStarted"}}

\* The heights up to the subjective head that the store lacks.
Missing == {h \in 1..SyncingInfo.subjective_head : h \notin store}

\* C25: a batch that fetch_next_batch schedules is the ongoing batch; it is
\* non-empty, has at most MAX_HEADERS_IN_BATCH heights (BatchLimit in the
\* model), lies within [1, subjective_head], contains no stored height, and
\* ends at the highest height missing up to the subjective head.
C25_BatchIsNewestGap ==
    \A b \in Scheduled :
        /\ ongoing_batch = {b}
        /\ b.lo <= b.hi
        /\ b.hi - b.lo + 1 <= BatchLimit
        /\ 1 <= b.lo /\ b.hi <= SyncingInfo.subjective_head
        /\ (b.lo..b.hi) \cap store = {}
        /\ Missing # {} /\ b.hi = Max(Missing)

\* A batch was scheduled that the limit has clipped: it has BatchLimit
\* heights and the height below it is missing as well.
C25_Witness ==
    \E b \in Scheduled :
        /\ b.hi - b.lo + 1 = BatchLimit
        /\ b.lo > 1 /\ (b.lo - 1) \notin store

\* The recorded window end is the height of a stored header outside the
\* syncing window, and the batch just scheduled lies above it.
WindowEndRespected ==
    \A w \in estimated_syncing_window_end :
        /\ w \in store /\ ~InSyncingWindow(w)
        /\ \A b \in Scheduled : b.lo > w

\* C26: with estimated_syncing_window_end = w recorded, no batch is
\* scheduled that contains a height at or below w; the recorded height is
\* that of a stored header outside the syncing window, and recording it
\* again never lowers it.
C26_NoBatchBelowWindowEnd ==
    [][/\ WindowEndRespected'
       /\ \A w \in estimated_syncing_window_end :
             \E v \in estimated_syncing_window_end' : v >= w]_vars

\* The window edge is recorded, heights below it are missing, and a batch
\* above it has just been scheduled.
C26_Witness ==
    \E w \in estimated_syncing_window_end :
        /\ \E h \in 1..(w - 1) : h \notin store
        /\ Scheduled # {}

\* The step consumes, under an ongoing batch, a result that is an error or
\* whose headers the store rejects.
ConsumesFailedResult ==
    /\ ConsumesResult
    /\ ongoing_batch # {}
    /\ ~FetchResultStored(store, Head(headers_rx))

\* What holds of every such step: the store is as before, the worker stays
\* in Connected, and with a peer connected fetch_next_batch schedules the
\* newest missing range.
FailureRecovered ==
    /\ store' = store
    /\ spc' = "connected"
    /\ PeerTrackerInfo.num_connected_peers > 0 =>
          /\ Scheduled' = ongoing_batch'
          /\ \A b \in ongoing_batch' : b.hi = Max(Missing)

IsOutcome(e) == e.type \in {"FetchingHeadersFailed", "FetchingHeadersFinished"}
Outcomes == SelectSeq(emitted, IsOutcome)

\* C29: a result consumed under an ongoing batch yields exactly one outcome
\* event, carrying the batch's range: FetchingHeadersFinished when the
\* headers were fetched and the store took them, FetchingHeadersFailed
\* otherwise.
C29_ExactlyOneOutcomeEvent ==
    [][(ConsumesResult /\ ongoing_batch # {}) =>
          \A b \in ongoing_batch :
             Outcomes' =
                IF FetchResultStored(store, Head(headers_rx))
                  THEN <<Event("FetchingHeadersFinished", b.lo, b.hi)>>
                  ELSE <<Event("FetchingHeadersFailed", b.lo, b.hi)>>]_vars

----------------------------------------------------------------------------
\* Claims about Syncer::info (checked under InfoSpec and InfoFairSpec).

\* The step is a call of Syncer::info.
CallsInfo == Len(info_calls') = Len(info_calls) + 1

\* The step is the worker taking a command from the channel.
HandlesCmd == cmd_rx # <<>> /\ cmd_rx' = Tail(cmd_rx) /\ ~cmd_rx_closed'

\* The call is still awaiting its answer.
AwaitsInfo(id) == id \in DOMAIN info_calls /\ info_calls[id] = InfoPending

\* The call has failed.
InfoFailed(calls, id) == id \in DOMAIN calls /\ calls[id].tag = "Err"

\* C30: a call of info() made after the stopped worker has terminated fails
\* with WorkerDied; a call made before that is queued, and the command the
\* worker takes, in Connecting or in Connected, is answered with the
\* snapshot of that moment; no call fails unless the syncer was stopped and
\* the worker has left its loops; and every call is eventually answered.
C30_InfoAnsweredOrWorkerDied ==
    /\ [][/\ CallsInfo =>
                info_calls'[Len(info_calls')] =
                    IF cmd_rx_closed THEN InfoWorkerDied ELSE InfoPending
          /\ HandlesCmd =>
                /\ spc \in {"connecting", "connected"}
                /\ info_calls'[Head(cmd_rx)] = InfoOk(SyncingInfo)
          /\ \A id \in DOMAIN info_calls' :
                (InfoFailed(info_calls', id) /\ ~InfoFailed(info_calls, id))
                  => (spc = "stopped" /\ scancelled)]_vars
    /\ \A id \in 1..MaxInfos : AwaitsInfo(id) ~> ~AwaitsInfo(id)

\* The worker answered one call with a snapshot while Connected (the
\* subjective head is set), and a later call got WorkerDied after the
\* worker had terminated.
C30_Witness ==
    /\ cmd_rx_closed
    /\ Len(info_calls) = 2
    /\ info_calls[1].tag = "Ok" /\ info_calls[1].info.subjective_head > 0
    /\ info_calls[2] = InfoWorkerDied

\* C31: handling a GetInfo command changes neither the subjective head, the
\* ongoing batch, the estimated syncing window end nor the store, and the
\* answer is the snapshot {stored_headers, subjective_head} of that
\* unchanged state: a query handled next, with no step in between, is
\* answered with the identical snapshot.
C31_InfoReadOnlyIdempotent ==
    [][HandlesCmd =>
         /\ UNCHANGED <<subjective_head_height, ongoing_batch,
                        estimated_syncing_window_end, store>>
         /\ info_calls'[Head(cmd_rx)] = InfoOk(SyncingInfo')
         /\ \A id \in DOMAIN info_calls :
               id # Head(cmd_rx) => info_calls'[id] = info_calls[id]]_vars

\* Two queries were handled while a batch was ongoing, and both hold the
\* same snapshot, which is the one of the current state.
C31_Witness ==
    /\ Len(info_calls) = 2
    /\ info_calls[1] = InfoOk(SyncingInfo)
    /\ info_calls[2] = info_calls[1]
    /\ info_calls[1].info.subjective_head > 0
    /\ info_calls[1].info.stored_headers # {}
    /\ ongoing_batch # {}

----------------------------------------------------------------------------
\* Claims about IndexedDbStore (checked under IndexedDbSpec).

\* The step is a call of append_single_unchecked, with its header and the
\* head height it found.
Appends == idb_last' # idb_last \/ idb' # idb

\* C38: append_single_unchecked adds the header exactly when its height is
\* head + 1 (head 0 for an empty store) and its hash is not stored;
\* otherwise the store is unchanged and the result is HeightExists for a
\* height <= head, NonContinuousAppend(head, height) for a height >
\* head + 1, and HashExists for a stored hash; and after any sequence of
\* appends the stored heights are 1..head, each once, with unique hashes.
C38_AppendOnlyNextHeight ==
    [][/\ Appends =>
            LET header == idb_last'.header
                head == HeadHeightOrZero(idb)
                accepted == /\ header.height = head + 1
                            /\ \A i \in DOMAIN idb : idb[i].hash # header.hash
            IN /\ accepted <=> idb_last'.result = AppendOk
               /\ accepted => idb' = Append(idb, header)
               /\ ~accepted =>
                    /\ idb' = idb
                    /\ idb_last'.result =
                         IF header.height <= head
                           THEN HeightExists(header.height)
                         ELSE IF header.height > head + 1
                           THEN NonContinuousAppend(head, header.height)
                         ELSE HashExists(header.hash)
       /\ \A i \in DOMAIN idb' : idb'[i].height = i
       /\ \A i, j \in DOMAIN idb' : idb'[i].hash = idb'[j].hash => i = j
       /\ HeadHeightOrZero(idb') = Len(idb')]_vars

\* The store holds heights 1..2 and has just rejected a header of height 3
\* that carries the hash of a stored header.
C38_Witness ==
    /\ Len(idb) >= 2
    /\ idb_last.header.height = Len(idb) + 1
    /\ idb_last.result = HashExists(idb[1].hash)

----------------------------------------------------------------------------
\* Claims about initialization (checked under ReconnectFairSpec).

\* The step is a failed attempt of try_init.
TryInitFails ==
    /\ try_init_task.pc \in {"get_head_header", "insert", "init_header_sub"}
    /\ try_init_task'.pc = "wait_connected_trusted"

\* C32: a failed attempt of try_init leaves the task running and waiting
\* to try again, and with a trusted peer connected it does try again; and
\* if from some point on a trusted peer stays connected, with head requests
\* answered, the syncer in Connecting eventually sets the subjective head
\* and enters Connected.
C32_InitNeverGivesUp ==
    /\ [][TryInitFails => (spc' = "connecting" /\ try_init_task'.head = 0)]_vars
    /\ (try_init_task.pc = "wait_connected_trusted" /\ trusted_peers # {})
          ~> (try_init_task.pc = "get_head_header" \/ trusted_peers = {})
    /\ (<>[](trusted_peers # {}))
          => ((spc = "connecting")
                ~> (spc = "connected" /\ subjective_head_height # {}))

----------------------------------------------------------------------------
\* Claims about the syncer and the pruner together (checked under NodeSpec).

\* The step is one of the syncer's three insertions: try_init's insert of
\* the head, the header-sub insert, the insert of a batch result.
TryInitInserts == try_init_task.pc = "insert" /\ try_init_task'.pc # "insert"
SyncerInserts == TryInitInserts \/ SeesHeaderSub \/ ConsumesResult

\* The step is a step of the pruner worker.
PrunerSteps == pvars' # pvars

\* C37: a height enters the store only on one of the syncer's insertions
\* (try_init, header-sub, batch result) and leaves it only on the pruner's
\* remove_tail, which removes the current tail and nothing else; a step of
\* the syncer removes no height and a step of the pruner adds none.
C37_StoreFrame ==
    [][/\ ~(store' \subseteq store) => (SyncerInserts /\ ~PrunerSteps)
       /\ ~(store \subseteq store') =>
            /\ CallsRemoveTail
            /\ store' = store \ {Min(store)}
       /\ svars' # svars => store \subseteq store'
       /\ PrunerSteps => store' \subseteq store]_vars

\* The pruner has removed the old tail, and the store holds heights below
\* the head try_init inserted and the height just inserted from header-sub.
C37_Witness ==
    /\ pruned # {}
    /\ subjective_head_height # {}
    /\ \E h \in store : Emitted("AddedHeaderFromHeaderSub", h, h)
    /\ \E h \in store : h > Max(pruned) /\ (h + 1) \in store
                         /\ h + 1 < SyncingInfo.subjective_head

\* The step is a handler of the worker that ends with fetch_next_batch,
\* and fetch_next_batch gets past its early returns: no batch is ongoing, a
\* peer is connected and the subjective head is set.
CallsFetchNextBatch ==
    \/ spc = "connecting" /\ spc' = "connected"
    \/ SeesHeaderSub
    \/ ConsumesResult
PastEarlyReturns ==
    /\ SeesHeaderSub => ongoing_batch = {}
    /\ PeerTrackerInfo.num_connected_peers > 0
    /\ subjective_head_height' # {}

\* The batch fetch_next_batch computes in that step: from the store and
\* the subjective head the handler leaves and the window end recorded so far.
ComputedNextBatch ==
    CalculateRangeToFetch(SyncingInfo.subjective_head', store',
                          estimated_syncing_window_end, MAX_HEADERS_IN_BATCH)

\* C39: when fetch_next_batch has computed a non-empty batch and the store
\* holds the header above the batch's end outside the syncing window, it
\* records that height as the estimated window end and schedules nothing:
\* no FetchingHeadersStarted, no ongoing batch, no new task; when that
\* header is absent or inside the window, the batch is issued and the
\* recorded window end stays.
C39_WindowEdgeCheck ==
    [][(CallsFetchNextBatch /\ PastEarlyReturns) =>
         \A b \in ComputedNextBatch :
            IF (b.hi + 1) \in store' /\ ~InSyncingWindow(b.hi + 1)
              THEN /\ estimated_syncing_window_end' = {b.hi + 1}
                   /\ Scheduled' = {}
                   /\ ongoing_batch' = {}
                   /\ BagCardinality(fetch_tasks') <= BagCardinality(fetch_tasks)
              ELSE /\ estimated_syncing_window_end' = estimated_syncing_window_end
                   /\ Scheduled' = {b}
                   /\ ongoing_batch' = {b}
                   /\ BagIn(FetchTask(b, TRUE), fetch_tasks')]_vars

\* The window edge was met below a batch the syncer had fetched: the
\* recorded height is stored and outside the window, the heights below it
\* are missing, and nothing is scheduled or ongoing.
C39_Witness ==
    /\ spc = "connected"
    /\ \E w \in estimated_syncing_window_end :
          /\ w \in store /\ ~InSyncingWindow(w)
          /\ (w - 1) \in Missing
          /\ (w + 1) \in store
          /\ \E i \in DOMAIN emitted :
                /\ emitted[i].type = "FetchingHeadersFinished"
                /\ emitted[i].from_height = w
    /\ Scheduled = {}
    /\ ongoing_batch = {}

\* C40: the syncer never schedules a batch that contains a height the
\* pruner has removed from the store before.
C40_PrunedNeverScheduledAgain ==
    \A b \in Scheduled : (b.lo..b.hi) \cap pruned = {}

----------------------------------------------------------------------------
\* Claims about convergence (checked under SyncFairSpec).

\* The syncing-window edge as the store shows it: the highest stored height
\* outside the syncing window, or 1 when there is none.
WindowEdge ==
    LET outside == {h \in store : ~InSyncingWindow(h)}
    IN IF outside = {} THEN 1 ELSE Max(outside)

\* The store holds every height from the window edge to the subjective head.
Covered ==
    /\ subjective_head_height # {}
    /\ \A h \in WindowEdge..SyncingInfo.subjective_head : h \in store

\* C27: with a peer connected and every range request answered with its
\* headers, the Connected syncer eventually has every height from the
\* syncing-window edge to the subjective head stored; from then on, as long
\* as the subjective head does not increase, it schedules no batch and the
\* stored ranges stay as they are, also when heads already seen are
\* announced again.
C27_ConvergesAndStaysQuiet ==
    /\ (spc = "connected") ~> Covered
    /\ [][(spc = "connected" /\ Covered
            /\ subjective_head_height' = subjective_head_height) =>
              (Scheduled' = {} /\ store' = store /\ Covered')]_vars

\* The syncer has converged after more than one batch: the limit clipped
\* the first one, the window edge is recorded, and nothing is in flight.
C27_Witness ==
    /\ spc = "connected"
    /\ Covered
    /\ Cardinality(store) > BatchLimit
    /\ estimated_syncing_window_end # {}
    /\ ongoing_batch = {} /\ fetch_tasks = EmptyBag /\ headers_rx = <<>>
====
